---- MODULE Spec2Model ----
(***************************************************************************)
(* Keymap visualizer: key-binding resolution, conflict analysis and the    *)
(* highlight cache of src/__init__.py, as a state machine.                 *)
(*                                                                         *)
(* The host's key configuration (wm.keyconfigs) is a store of keyconfig    *)
(* objects, each a named list of keymaps, each keymap a named list of      *)
(* keymap items.  The add-on reads it, keeps a process-wide highlight      *)
(* cache keyed by the panel's preferences, and flips one item's active     *)
(* flag in WM_OT_DisableKeymapItem.                                        *)
(***************************************************************************)
EXTENDS Integers, Sequences, FiniteSets, TLC

VARIABLES
    keyconfigs,                  \* bpy.context.window_manager.keyconfigs (host store)
    prefs,                       \* context.scene.keymap_checker (KeymapCheckerPrefs)
    mode,                        \* context.mode
    keymap_cache,                \* module global keymap_cache
    last_keyconfig_fingerprint,  \* module global last_keyconfig_fingerprint
    ret,                         \* the last operation run and what it returned
    edits,                       \* number of host edits made so far
    changes                      \* number of preference / mode changes made so far

vars == <<keyconfigs, prefs, mode, keymap_cache, last_keyconfig_fingerprint, ret, edits, changes>>

(***************************************************************************)
(* Bounds of the model.                                                    *)
(***************************************************************************)
MaxEdits == 1      \* edits of the key configuration (host edits, deactivations) in one behaviour
MaxChanges == 1    \* preference and mode changes in one behaviour
MaxItems == 3      \* keymap items a keymap may hold after a host edit
MaxRows == 3       \* rows of a row list given to _compact_rows
MaxApplications == 2    \* successive applications of _compact_rows to a list

(***************************************************************************)
(* Small sequence helpers.                                                 *)
(***************************************************************************)
Range(s) == {s[i] : i \in 1..Len(s)}

RECURSIVE Flatten(_)
Flatten(ss) == IF ss = <<>> THEN <<>> ELSE Head(ss) \o Flatten(Tail(ss))

Contains(s, x) == \E i \in 1..Len(s) : s[i] = x

RemoveAt(s, i) == SubSeq(s, 1, i-1) \o SubSeq(s, i+1, Len(s))

(***************************************************************************)
(* Editor map and the key grids.                                           *)
(***************************************************************************)
editor_map ==
    [e \in {"VIEW_3D", "IMAGE_EDITOR", "GRAPH_EDITOR", "DOPESHEET_EDITOR", "NLA_EDITOR",
            "SEQUENCE_EDITOR", "NODE_EDITOR", "OUTLINER", "TEXT_EDITOR", "PROPERTIES",
            "CONSOLE", "PREFERENCES", "CLIP_EDITOR", "EMPTY", "SCREEN"} |->
        CASE e = "VIEW_3D" -> "3D Viewport"
          [] e = "IMAGE_EDITOR" -> "Image / UV"
          [] e = "GRAPH_EDITOR" -> "Graph Editor"
          [] e = "DOPESHEET_EDITOR" -> "Dope Sheet"
          [] e = "NLA_EDITOR" -> "NLA Editor"
          [] e = "SEQUENCE_EDITOR" -> "Video Sequence"
          [] e = "NODE_EDITOR" -> "Node Editor"
          [] e = "OUTLINER" -> "Outliner"
          [] e = "TEXT_EDITOR" -> "Text Editor"
          [] e = "PROPERTIES" -> "Properties"
          [] e = "CONSOLE" -> "Console"
          [] e = "PREFERENCES" -> "Preferences"
          [] e = "CLIP_EDITOR" -> "Movie Clip"
          [] e = "EMPTY" -> "Window"
          [] e = "SCREEN" -> "Screen"]

\* the label of the grave-accent key: in the source the one-character string
\* holding the grave accent, here spelled out
Backquote == "GRAVE_ACCENT_CHARACTER"

qwerty_keys ==
    << <<"ESC", "F1", "F2", "F3", "F4", "F5", "F6", "F7", "F8", "F9", "F10", "F11", "F12">>,
       <<Backquote, "1", "2", "3", "4", "5", "6", "7", "8", "9", "0", "-", "=", "DELETE">>,
       <<"TAB", "Q", "W", "E", "R", "T", "Y", "U", "I", "O", "P", "[", "]", "\\">>,
       <<"A", "S", "D", "F", "G", "H", "J", "K", "L", ";", "'", "RETURN">>,
       <<"Z", "X", "C", "V", "B", "N", "M", ",", ".", "/">>,
       <<"SPACE", "ENTER", "BACK_SPACE">> >>

numpad_keys ==
    << <<"F16", "F17", "F18", "F19">>,
       <<" ", "=", "/", "*">>,
       <<"7", "8", "9", "-">>,
       <<"4", "5", "6", "+">>,
       <<"1", "2", "3", " ">>,
       <<" ", "0", ".", "ENTER">> >>

cursor_keys ==
    << <<"F13", "F14", "F15">>,
       <<"INSERT", "HOME", "PAGE_UP">>,
       <<"DELETE", "END", "PAGE_DOWN">>,
       <<" ", " ", " ">>,
       <<" ", " ", " ">>,
       <<" ", " ", " ">>,
       <<" ", " ", " ">>,
       <<" ", "UP", " ">>,
       <<"DOWN", "LEFT", "RIGHT">> >>

\* the key id the numpad loop of populate_keymap_cache builds for a numpad cell
NumpadKeyId(k) ==
    CASE k = "0" -> "NUMPAD_0" [] k = "1" -> "NUMPAD_1" [] k = "2" -> "NUMPAD_2"
      [] k = "3" -> "NUMPAD_3" [] k = "4" -> "NUMPAD_4" [] k = "5" -> "NUMPAD_5"
      [] k = "6" -> "NUMPAD_6" [] k = "7" -> "NUMPAD_7" [] k = "8" -> "NUMPAD_8"
      [] k = "9" -> "NUMPAD_9"
      [] k = "." -> "NUMPAD_PERIOD"
      [] k = "/" -> "NUMPAD_SLASH"
      [] k = "*" -> "NUMPAD_ASTERIX"
      [] k = "-" -> "NUMPAD_MINUS"
      [] k = "+" -> "NUMPAD_PLUS"
      [] k = "ENTER" -> "NUMPAD_ENTER"
      [] k = "=" -> "NUMPAD_EQUALS"
      [] OTHER -> k

\* the labels populate_keymap_cache writes into a table, in its three loops
GridKeys ==
    Range(Flatten(qwerty_keys))
    \cup (Range(Flatten(cursor_keys)) \ {" "})
    \cup {NumpadKeyId(k) : k \in Range(Flatten(numpad_keys)) \ {" "}}

(***************************************************************************)
(* normalize_key_types: label -> list of raw key-type tokens.              *)
(***************************************************************************)
FKeyLabels == {"F1", "F2", "F3", "F4", "F5", "F6", "F7", "F8", "F9", "F10", "F11", "F12",
               "F13", "F14", "F15", "F16", "F17", "F18", "F19"}

\* normalize_key_types with the one token ACCENT_GRAVE for the grave key
normalize_key_types_accent_only(label) ==
    IF label = Backquote THEN <<"ACCENT_GRAVE">>
    ELSE IF label \in {"RETURN", "ENTER"} THEN <<"RET">>
    ELSE <<label>>

\* normalize_key_types giving a main-row digit its numpad token as well
normalize_key_types_numpad_too(label) ==
    IF label = "1" THEN <<"ONE", "NUMPAD_1">>
    ELSE IF label = "3" THEN <<"THREE", "NUMPAD_3">>
    ELSE <<label>>

\* normalize_key_types falling back to the token RET for a label it has no
\* table entry for
normalize_key_types_unknown_ret(label) ==
    IF label \in {"RETURN", "ENTER"} THEN <<"RET">> ELSE <<label, "RET">>

normalize_key_types(label) ==
    CASE label \in FKeyLabels -> <<label>>
      [] label = "UP" -> <<"UP_ARROW">>
      [] label = "DOWN" -> <<"DOWN_ARROW">>
      [] label = "LEFT" -> <<"LEFT_ARROW">>
      [] label = "RIGHT" -> <<"RIGHT_ARROW">>
      [] label \in {"TAB", "ESC", "SPACE", "BACK_SPACE", "INSERT", "HOME", "END",
                    "PAGE_UP", "PAGE_DOWN"} -> <<label>>
      [] label \in {"RETURN", "ENTER"} -> <<"RET">>
      [] label = "DELETE" -> <<"DEL">>
      [] label = "0" -> <<"ZERO">>
      [] label = "1" -> <<"ONE">>
      [] label = "2" -> <<"TWO">>
      [] label = "3" -> <<"THREE">>
      [] label = "4" -> <<"FOUR">>
      [] label = "5" -> <<"FIVE">>
      [] label = "6" -> <<"SIX">>
      [] label = "7" -> <<"SEVEN">>
      [] label = "8" -> <<"EIGHT">>
      [] label = "9" -> <<"NINE">>
      [] label = Backquote -> <<"ACCENT_GRAVE", "GRAVE">>
      [] label = "-" -> <<"MINUS">>
      [] label = "=" -> <<"EQUAL">>
      [] label = "[" -> <<"LEFT_BRACKET">>
      [] label = "]" -> <<"RIGHT_BRACKET">>
      [] label = "\\" -> <<"BACK_SLASH">>
      [] label = ";" -> <<"SEMI_COLON">>
      [] label = "'" -> <<"QUOTE">>
      [] label = "," -> <<"COMMA">>
      [] label = "." -> <<"PERIOD">>
      [] label = "/" -> <<"SLASH">>
      [] label = "+" -> <<"PLUS">>
      [] OTHER -> <<label>>

(***************************************************************************)
(* The host's key configuration.                                           *)
(*   keyconfigs.objs    the keyconfig objects, in the order wm.keyconfigs  *)
(*                      iterates them; an object's index is its identity   *)
(*   keyconfigs.default, .user, .addon, .active                            *)
(*                      the four named references (0: absent)              *)
(* A keyconfig is [name, keymaps]; a keymap is [name, space_type,          *)
(* is_modal, keymap_items]; a keymap item is the record Kmi builds.        *)
(***************************************************************************)
Kmi(idname, name, type, ctrl, shift, alt, oskey, any, value, key_modifier, active) ==
    [idname |-> idname, name |-> name, type |-> type,
     ctrl |-> ctrl, shift |-> shift, alt |-> alt, oskey |-> oskey, any |-> any,
     value |-> value, key_modifier |-> key_modifier, active |-> active]

KeyMap(name, space_type, is_modal, items) ==
    [name |-> name, space_type |-> space_type, is_modal |-> is_modal, keymap_items |-> items]

KeyConfig(name, keymaps) == [name |-> name, keymaps |-> keymaps]

\* Keymap items the host may hold (all active as created).
ConfirmA     == Kmi("object.confirm_a", "Confirm A", "RET", FALSE, FALSE, FALSE, FALSE, FALSE, "PRESS", "NONE", TRUE)
ConfirmB     == Kmi("object.confirm_b", "Confirm B", "RET", FALSE, FALSE, FALSE, FALSE, FALSE, "PRESS", "NONE", TRUE)
ConfirmACtrl == Kmi("object.confirm_a", "Confirm A", "RET", TRUE, FALSE, FALSE, FALSE, FALSE, "PRESS", "NONE", TRUE)
RotateAny    == Kmi("view3d.rotate", "Rotate View", "A", TRUE, FALSE, FALSE, FALSE, TRUE, "PRESS", "NONE", TRUE)
SearchRel    == Kmi("wm.search_menu", "Search Menu", "Q", FALSE, FALSE, FALSE, FALSE, FALSE, "RELEASE", "NONE", TRUE)
PlayAnim     == Kmi("screen.animation_play", "Play Animation", "A", FALSE, FALSE, FALSE, FALSE, FALSE, "PRESS", "NONE", TRUE)
ModalConfirm == Kmi("", "Confirm", "RET", FALSE, FALSE, FALSE, FALSE, FALSE, "PRESS", "NONE", TRUE)

Inactive(kmi) == [kmi EXCEPT !.active = FALSE]

\* the items a host edit may add to a keymap: all of them where the
\* resolvers are checked, two of them where the cache is
Palette == {ConfirmA, ConfirmB, ConfirmACtrl, RotateAny, SearchRel, PlayAnim}
CachePalette == {ConfirmB, SearchRel}

\* The key configuration the host starts with; act is the object the
\* active reference resolves to (the default keyconfig itself, or a preset).
BaseKeyconfigs(act) ==
    [objs |-> <<
        KeyConfig("Blender", <<
            KeyMap("3D View", "VIEW_3D", FALSE, <<ConfirmA, RotateAny>>),
            KeyMap("Window", "EMPTY", FALSE, <<PlayAnim>>),
            KeyMap("Knife Tool Modal Map", "EMPTY", TRUE, <<ModalConfirm>>) >>),
        KeyConfig("Blender addon", <<
            KeyMap("3D View", "VIEW_3D", FALSE, <<ConfirmB, RotateAny>>),
            KeyMap("Screen", "SCREEN", FALSE, <<>>) >>),
        KeyConfig("Blender user", <<
            KeyMap("3D View", "VIEW_3D", FALSE, <<Inactive(ConfirmB), Inactive(ConfirmACtrl)>>),
            KeyMap("Window", "EMPTY", FALSE, <<SearchRel>>) >>),
        KeyConfig("Custom", <<
            KeyMap("3D View", "VIEW_3D", FALSE, <<Inactive(ConfirmA)>>) >>) >>,
     default |-> 1, user |-> 3, addon |-> 2, active |-> act]

\* The key configuration the highlight cache starts on: a smaller one, as
\* each table takes a resolution per grid key.
CacheKeyconfigs ==
    [objs |-> <<
        KeyConfig("Blender", <<
            KeyMap("3D View", "VIEW_3D", FALSE, <<ConfirmA>>),
            KeyMap("Window", "EMPTY", FALSE, <<SearchRel>>) >>),
        KeyConfig("Blender addon", <<
            KeyMap("3D View", "VIEW_3D", FALSE, <<ConfirmB>>) >>),
        KeyConfig("Blender user", <<
            KeyMap("3D View", "VIEW_3D", FALSE, <<Inactive(ConfirmB)>>) >>),
        KeyConfig("Custom", <<
            KeyMap("3D View", "VIEW_3D", FALSE, <<Inactive(ConfirmA)>>) >>) >>,
     default |-> 1, user |-> 3, addon |-> 2, active |-> 1]

\* every keymap item of the store, by position
Positions(w) ==
    UNION {UNION {{[kc |-> a, km |-> b, it |-> c] :
                      c \in 1..Len(w.objs[a].keymaps[b].keymap_items)} :
                  b \in 1..Len(w.objs[a].keymaps)} :
           a \in 1..Len(w.objs)}

KmAt(w, p) == w.objs[p.kc].keymaps[p.km]
KmiAt(w, p) == w.objs[p.kc].keymaps[p.km].keymap_items[p.it]

\* the positions in the order a walk  for kc in kcs: for km in kc.keymaps:
\* for kmi in km.keymap_items  meets them
WalkPositions(w, kcs) ==
    Flatten([a \in 1..Len(kcs) |->
        Flatten([b \in 1..Len(w.objs[kcs[a]].keymaps) |->
            [c \in 1..Len(w.objs[kcs[a]].keymaps[b].keymap_items) |->
                [kc |-> kcs[a], km |-> b, it |-> c]]])])

(***************************************************************************)
(* Helpers of the resolver.                                                *)
(***************************************************************************)
\* A faulty variant of _full_binding_sig: the binding is keyed by its group
\* and command id alone.
_full_binding_sig_by_command(km, kmi) == <<km.name, kmi.idname>>

_full_binding_sig(km, kmi) ==
    <<km.name, kmi.idname, kmi.type, kmi.ctrl, kmi.shift, kmi.alt, kmi.oskey, kmi.any,
      kmi.value, kmi.key_modifier>>

_collect_disabled_binding_sigs(w) ==
    {_full_binding_sig(KmAt(w, p), KmiAt(w, p)) :
        p \in {q \in Positions(w) : q.kc \in ({w.user, w.active} \ {0}) /\ ~KmiAt(w, q).active}}

_sig_for_kmi(km, kmi) == <<km.name, kmi.idname, kmi.name, kmi.value, kmi.key_modifier>>

\* A faulty variant of _modifiers_match: an any-modifier item matches every
\* request.
_modifiers_match_any_always(kmi, ctrl, shift, alt, cmd) ==
    IF kmi.any
    THEN TRUE
    ELSE /\ kmi.ctrl = ctrl
         /\ kmi.shift = shift
         /\ kmi.alt = alt
         /\ kmi.oskey = cmd

\* A faulty variant of _modifiers_match: an item matches when the request
\* holds at least the item's modifiers.
_modifiers_match_subset(kmi, ctrl, shift, alt, cmd) ==
    IF kmi.any
    THEN ~(ctrl \/ shift \/ alt \/ cmd)
    ELSE /\ kmi.ctrl => ctrl
         /\ kmi.shift => shift
         /\ kmi.alt => alt
         /\ kmi.oskey => cmd

_modifiers_match(kmi, ctrl, shift, alt, cmd) ==
    IF kmi.any
    THEN ~(ctrl \/ shift \/ alt \/ cmd)
    ELSE /\ kmi.ctrl = ctrl
         /\ kmi.shift = shift
         /\ kmi.alt = alt
         /\ kmi.oskey = cmd

\* A faulty variant of AppendNew: a keyconfig already in the list is
\* appended again.
AppendNew_unchecked(kcs, kc) == IF kc # 0 THEN Append(kcs, kc) ELSE kcs

AppendNew(kcs, kc) == IF kc # 0 /\ ~Contains(kcs, kc) THEN Append(kcs, kc) ELSE kcs

RECURSIVE AppendAllNew(_, _)
AppendAllNew(kcs, more) ==
    IF more = <<>> THEN kcs ELSE AppendAllNew(AppendNew(kcs, Head(more)), Tail(more))

\* the keyconfig objects in the order _iter_all_keyconfigs yields them
_iter_all_keyconfigs(w) ==
    AppendAllNew(AppendAllNew(<<>>, <<w.default, w.user, w.addon, w.active>>),
                 [i \in 1..Len(w.objs) |-> i])

\* km.space_type or 'EMPTY'
SpaceOf(km) == IF km.space_type = "" THEN "EMPTY" ELSE km.space_type

\* 'uv' in km.name.lower(), for the keymap names of the model
NameMentionsUv(name) == name \in {"UV Editor"}

\* 'uv.' in idname.lower(), for the operator ids of the model
IdMentionsUv(idname) == idname \in {"uv.select"}

\* name.lower() starts with 'uv ' or holds ' uv ', for the item names of the model
ItemNameMentionsUv(name) == name \in {"UV Select"}

\* A faulty variant of is_relevant_keymap: equality of the space type is
\* tested first and wins before the rules on the name.
is_relevant_keymap_tag_first(km, editor) ==
    IF (IF km.space_type = "" THEN "EMPTY" ELSE km.space_type) = editor
    THEN TRUE
    ELSE IF editor = "UV"
    THEN (IF km.space_type = "" THEN "EMPTY" ELSE km.space_type) = "IMAGE_EDITOR"
            /\ km.name \in {"UV Editor"}
    ELSE FALSE

\* A faulty variant of is_relevant_keymap: for SCREEN and EMPTY a keymap
\* whose name holds Window, Screen, Global or PME is relevant too (the rule
\* of the older versions of the add-on).
is_relevant_keymap_global_keywords(km, editor) ==
    IF editor = "UV"
    THEN (IF km.space_type = "" THEN "EMPTY" ELSE km.space_type) = "IMAGE_EDITOR"
            /\ km.name \in {"UV Editor"}
    ELSE IF km.name \in {"UV Editor"}
    THEN FALSE
    ELSE IF (IF km.space_type = "" THEN "EMPTY" ELSE km.space_type) = editor
    THEN TRUE
    ELSE editor \in {"EMPTY", "SCREEN"} /\ km.name \in {"Window", "Screen Editing"}

is_relevant_keymap(km, editor) ==
    IF editor = "UV"
    THEN SpaceOf(km) = "IMAGE_EDITOR" /\ NameMentionsUv(km.name)
    ELSE IF NameMentionsUv(km.name) /\ editor # "UV"
    THEN FALSE
    ELSE SpaceOf(km) = editor

(***************************************************************************)
(* Rows.  A row is [label, sig, kc_names]: the display label, the 5-tuple  *)
(* _sig_for_kmi gives, and the sorted list of contributing keyconfig names. *)
(***************************************************************************)
\* every keyconfig name of the model, in Python's string order
NameOrder == <<"Blender", "Blender addon", "Blender user", "Custom">>

\* sorted(names) for a set of keyconfig names
SortedNames(S) == LET In(n) == n \in S IN SelectSeq(NameOrder, In)

\* The label is kept as its parts: the joined keyconfig names, the editor
\* display name, the operator or modal event, the display name in
\* parentheses (when it differs) and the bracketed extras.
_format_kmi_label(kc_names, km, kmi) ==
    LET space == SpaceOf(km)
        editor_display == IF space \in DOMAIN editor_map THEN editor_map[space] ELSE km.name
        op == kmi.idname
        disp == kmi.name
        extras == (IF kmi.any THEN <<"any-mod">> ELSE <<>>)
                  \o (IF kmi.value # "PRESS" THEN <<<<"value", kmi.value>>>> ELSE <<>>)
                  \o (IF kmi.key_modifier \notin {"NONE", "UNKNOWN", ""}
                      THEN <<<<"key_mod", kmi.key_modifier>>>> ELSE <<>>)
    IN  IF km.is_modal /\ op = ""
        THEN [kc |-> kc_names, editor |-> editor_display, what |-> <<"event", kmi.type>>,
              disp |-> "", extras |-> extras]
        ELSE [kc |-> kc_names, editor |-> editor_display,
              what |-> <<"op", IF op # "" THEN op ELSE IF disp # "" THEN disp ELSE "(Unknown)">>,
              disp |-> IF disp # "" /\ disp # op THEN disp ELSE "",
              extras |-> extras]

\* A faulty variant of MergeBySig: a repeated 5-tuple is dropped without
\* adding its keyconfig name to the slot.
RECURSIVE MergeBySig_first_layer(_, _, _)
MergeBySig_first_layer(w, cands, acc) ==
    IF cands = <<>> THEN acc
    ELSE LET p == Head(cands)
             sig == <<KmAt(w, p).name, KmiAt(w, p).idname, KmiAt(w, p).name,
                      KmiAt(w, p).value, KmiAt(w, p).key_modifier>>
             hit == {i \in 1..Len(acc) : acc[i].sig = sig}
         IN  IF hit = {}
             THEN MergeBySig_first_layer(w, Tail(cands),
                     Append(acc, [sig |-> sig, first |-> p,
                                  kc_names |-> {w.objs[p.kc].name}]))
             ELSE MergeBySig_first_layer(w, Tail(cands), acc)

\* A faulty variant of MergeBySig: a repeated 5-tuple keeps the name of the
\* layer met last instead of collecting the names.
RECURSIVE MergeBySig_last_layer(_, _, _)
MergeBySig_last_layer(w, cands, acc) ==
    IF cands = <<>> THEN acc
    ELSE LET p == Head(cands)
             sig == <<KmAt(w, p).name, KmiAt(w, p).idname, KmiAt(w, p).name,
                      KmiAt(w, p).value, KmiAt(w, p).key_modifier>>
             kc_name == w.objs[p.kc].name
             hit == {i \in 1..Len(acc) : acc[i].sig = sig}
         IN  IF hit = {}
             THEN MergeBySig_last_layer(w, Tail(cands),
                     Append(acc, [sig |-> sig, first |-> p, kc_names |-> {kc_name}]))
             ELSE MergeBySig_last_layer(w, Tail(cands),
                     [i \in 1..Len(acc) |->
                         IF i \in hit
                         THEN [acc[i] EXCEPT !.kc_names = {kc_name}]
                         ELSE acc[i]])

\* merged / order of the two resolvers: one slot per 5-tuple, in first-seen
\* order, holding the first (km, kmi) and the set of keyconfig names
RECURSIVE MergeBySig(_, _, _)
MergeBySig(w, cands, acc) ==
    IF cands = <<>> THEN acc
    ELSE LET p == Head(cands)
             sig == _sig_for_kmi(KmAt(w, p), KmiAt(w, p))
             kc_name == w.objs[p.kc].name
             hit == {i \in 1..Len(acc) : acc[i].sig = sig}
         IN  IF hit = {}
             THEN MergeBySig(w, Tail(cands),
                             Append(acc, [sig |-> sig, first |-> p, kc_names |-> {kc_name}]))
             ELSE MergeBySig(w, Tail(cands),
                             [i \in 1..Len(acc) |->
                                 IF i \in hit
                                 THEN [acc[i] EXCEPT !.kc_names = @ \cup {kc_name}]
                                 ELSE acc[i]])

\* the tuple (label, sig, sorted(kc_names)) the resolvers append to out
Row(kc_names, km, kmi) ==
    [label |-> _format_kmi_label(kc_names, km, kmi),
     sig |-> _sig_for_kmi(km, kmi),
     kc_names |-> kc_names]

RowsOf(w, merged) ==
    [i \in 1..Len(merged) |->
        Row(SortedNames(merged[i].kc_names),
            KmAt(w, merged[i].first), KmiAt(w, merged[i].first))]

\* the four per-item tests both resolvers make, in their order
ItemPasses(w, p, key_types, ctrl, shift, alt, cmd, disabled_bindings) ==
    LET kmi == KmiAt(w, p) IN
    /\ kmi.active
    /\ kmi.type \in Range(key_types)
    /\ _modifiers_match(kmi, ctrl, shift, alt, cmd)
    /\ _full_binding_sig(KmAt(w, p), kmi) \notin disabled_bindings

\* the extra UV test of get_keymap_matches_in_editor
UvStrict(kmi, editor) ==
    editor = "UV" => (IdMentionsUv(kmi.idname) \/ ItemNameMentionsUv(kmi.name))

\* the positions whose item the loops of get_keymap_matches_in_editor merge
\* when the keyconfigs are met in the order kcs
EditorCandidatesOn(w, kcs, key_label, editor, ctrl, shift, alt, cmd, hide_modal) ==
    LET key_types == normalize_key_types(key_label)
        disabled_bindings == _collect_disabled_binding_sigs(w)
        Keep(p) == /\ ~(hide_modal /\ KmAt(w, p).is_modal)
                   /\ is_relevant_keymap(KmAt(w, p), editor)
                   /\ ItemPasses(w, p, key_types, ctrl, shift, alt, cmd, disabled_bindings)
                   /\ UvStrict(KmiAt(w, p), editor)
    IN  SelectSeq(WalkPositions(w, kcs), Keep)

\* the positions whose item get_keymap_matches_in_editor merges, in walk order
EditorCandidates(w, key_label, editor, ctrl, shift, alt, cmd, hide_modal) ==
    EditorCandidatesOn(w, _iter_all_keyconfigs(w), key_label, editor, ctrl, shift, alt, cmd,
                       hide_modal)

get_keymap_matches_in_editor(w, key_label, editor, ctrl, shift, alt, cmd, hide_modal) ==
    RowsOf(w, MergeBySig(w, EditorCandidates(w, key_label, editor, ctrl, shift, alt, cmd,
                                             hide_modal), <<>>))

\* the positions whose item get_global_matches merges, in walk order
GlobalCandidates(w, key_label, ctrl, shift, alt, cmd, hide_modal) ==
    LET key_types == normalize_key_types(key_label)
        disabled_bindings == _collect_disabled_binding_sigs(w)
        Keep(p) == /\ ~(hide_modal /\ KmAt(w, p).is_modal)
                   /\ SpaceOf(KmAt(w, p)) \in {"EMPTY", "SCREEN"}
                   /\ ItemPasses(w, p, key_types, ctrl, shift, alt, cmd, disabled_bindings)
    IN  SelectSeq(WalkPositions(w, _iter_all_keyconfigs(w)), Keep)

get_global_matches(w, key_label, ctrl, shift, alt, cmd, hide_modal) ==
    RowsOf(w, MergeBySig(w, GlobalCandidates(w, key_label, ctrl, shift, alt, cmd, hide_modal),
                         <<>>))

(***************************************************************************)
(* get_keymap_conflicts.                                                   *)
(***************************************************************************)
\* A faulty variant of sig3: the group name is part of the reduced identity.
sig3_with_group(row) == <<row.sig[1], row.sig[2], row.sig[4], row.sig[5]>>

\* sig3 of the source: (idname, value, key_modifier) of a row
sig3(row) == <<row.sig[2], row.sig[4], row.sig[5]>>

\* the compact / order loop: the first row of each (idname, value, key_mod)
FirstPerKey(rows) ==
    LET First(i) == \A j \in 1..(i - 1) :
                        <<rows[j].sig[2], rows[j].sig[4], rows[j].sig[5]>>
                            # <<rows[i].sig[2], rows[i].sig[4], rows[i].sig[5]>>
        kept == SelectSeq([i \in 1..Len(rows) |-> i], First)
    IN  [n \in 1..Len(kept) |-> rows[kept[n]]]

\* A faulty variant of intra_editor_conflicts: more than two rows are
\* needed.
intra_editor_conflicts_over_two(editor_rows) ==
    IF Len(editor_rows) > 2 THEN editor_rows ELSE <<>>

\* A faulty variant of intra_editor_conflicts: a single row is reported too.
intra_editor_conflicts_single(editor_rows) == editor_rows

\* A faulty variant of the intra-editor list: the first editor row is left
\* out.
intra_editor_conflicts_tail(editor_rows) ==
    IF Len(editor_rows) > 1 THEN Tail(editor_rows) ELSE <<>>

\* editor_rows if len(editor_rows) > 1 else []
intra_editor_conflicts(editor_rows) ==
    IF Len(editor_rows) > 1 THEN editor_rows ELSE <<>>

get_keymap_conflicts(w, key_label, current_editor, ctrl, shift, alt, cmd, screen_always_on, hide_modal) ==
    LET editor_rows == get_keymap_matches_in_editor(w, key_label, current_editor,
                                                    ctrl, shift, alt, cmd, hide_modal)
        global_full == get_global_matches(w, key_label, ctrl, shift, alt, cmd, hide_modal)
        global_rows == FirstPerKey(global_full)
        editor_sigset == {sig3(editor_rows[i]) : i \in 1..Len(editor_rows)}
        global_sigset == {sig3(global_rows[i]) : i \in 1..Len(global_rows)}
        overlap == editor_sigset \cap global_sigset
        InOverlap(r) == sig3(r) \in overlap
    IN  [editor_rows |-> editor_rows,
         global_rows |-> global_rows,
         intra_editor_conflicts |-> intra_editor_conflicts(editor_rows),
         editor_overlap_rows |-> SelectSeq(editor_rows, InOverlap),
         global_overlap_rows |-> SelectSeq(global_rows, InOverlap)]

(***************************************************************************)
(* Helpers of the match panel.                                             *)
(***************************************************************************)
\* A faulty variant of the key of _compact_rows: the command id alone.
CompactKey_command_only(row) == <<row.sig[2]>>

\* k = (sig[1], sig[3], sig[4]) of the source: (idname, value, key_mod)
CompactKey(row) == <<row.sig[2], row.sig[4], row.sig[5]>>

\* A faulty variant of _compact_rows: a new key is put in front of the
\* order instead of behind it.
RECURSIVE CompactIntoFront(_, _)
CompactIntoFront(rows, acc) ==
    IF rows = <<>> THEN acc
    ELSE LET r == Head(rows)
             hit == {i \in 1..Len(acc) : CompactKey(acc[i]) = CompactKey(r)}
         IN  IF hit = {}
             THEN CompactIntoFront(Tail(rows), <<r>> \o acc)
             ELSE CompactIntoFront(Tail(rows),
                     [i \in 1..Len(acc) |->
                         IF i \in hit
                         THEN [acc[i] EXCEPT
                                 !.kc_names = SortedNames(Range(@) \cup Range(r.kc_names))]
                         ELSE acc[i]])

_compact_rows_newest_first(rows) == CompactIntoFront(rows, <<>>)

RECURSIVE CompactInto(_, _)
CompactInto(rows, acc) ==
    IF rows = <<>> THEN acc
    ELSE LET r == Head(rows)
             hit == {i \in 1..Len(acc) : CompactKey(acc[i]) = CompactKey(r)}
         IN  IF hit = {}
             THEN CompactInto(Tail(rows), Append(acc, r))
             ELSE CompactInto(Tail(rows),
                     [i \in 1..Len(acc) |->
                         IF i \in hit
                         THEN [acc[i] EXCEPT
                                 !.kc_names = SortedNames(Range(@) \cup Range(r.kc_names))]
                         ELSE acc[i]])

_compact_rows(rows) == CompactInto(rows, <<>>)

\* A faulty variant of _only_press: every row is kept.
_only_press_keeps_all(rows) == rows

_only_press(rows) == LET Press(r) == r.sig[4] = "PRESS" IN SelectSeq(rows, Press)

\* opid_lc.startswith(prefix), for the operator ids of the model: each is
\* "<family>.<name>", and every prefix the source lists is "<family>." or
\* the whole id wm.pme_user_pie_menu_call
OpFamily(opid) ==
    CASE opid \in {"object.confirm_a", "object.confirm_b"} -> "object."
      [] opid = "view3d.rotate" -> "view3d."
      [] opid = "wm.search_menu" -> "wm."
      [] opid = "screen.animation_play" -> "screen."
      [] opid = "uv.select" -> "uv."
      [] OTHER -> ""

StartsWithAny(opid, prefixes) ==
    \/ OpFamily(opid) \in prefixes
    \/ (opid = "wm.pme_user_pie_menu_call" /\ opid \in prefixes)

Pme == "wm.pme_user_pie_menu_call"

allowed_by_mode(mode_str) ==
    CASE mode_str = "OBJECT" -> {"object.", "mesh.", "view3d.", "pose.", "armature.", Pme}
      [] mode_str = "EDIT_MESH" -> {"mesh.", "view3d.", "uv.", "curve.", "curves.", Pme}
      [] mode_str = "EDIT_CURVE" -> {"curve.", "curves.", "view3d.", Pme}
      [] mode_str = "EDIT_SURFACE" -> {"curve.", "view3d.", Pme}
      [] mode_str = "SCULPT" -> {"sculpt.", "view3d.", Pme}
      [] mode_str \in {"PAINT_VERTEX", "PAINT_WEIGHT", "PAINT_TEXTURE"} -> {"paint.", "view3d.", Pme}
      [] mode_str = "SCULPT_CURVES" -> {"curves.", "view3d.", Pme}
      [] mode_str = "PARTICLE_EDIT" -> {"particle.", "view3d.", Pme}
      [] mode_str = "POSE" -> {"pose.", "armature.", "object.", "view3d.", Pme}
      [] mode_str = "EDIT_ARMATURE" -> {"armature.", "view3d.", Pme}
      [] OTHER -> {"view3d.", "object.", "mesh.", Pme}

family(editor_id) ==
    CASE editor_id = "GRAPH_EDITOR" -> {"graph.", "anim.", Pme}
      [] editor_id = "DOPESHEET_EDITOR" -> {"anim.", "action.", Pme}
      [] editor_id = "NLA_EDITOR" -> {"nla.", Pme}
      [] editor_id = "SEQUENCE_EDITOR" -> {"sequencer.", Pme}
      [] editor_id = "NODE_EDITOR" -> {"node.", Pme}
      [] editor_id = "CLIP_EDITOR" -> {"clip.", Pme}
      [] editor_id = "OUTLINER" -> {"outliner.", Pme}
      [] editor_id = "TEXT_EDITOR" -> {"text.", Pme}
      [] editor_id = "FILE_BROWSER" -> {"file.", Pme}
      [] OTHER -> {Pme}

_allow_global_for_editor(opid_lc, editor_id, mode_str) ==
    CASE editor_id = "VIEW_3D" ->
            StartsWithAny(opid_lc, allowed_by_mode(mode_str)) \/ opid_lc = Pme
      [] editor_id = "UV" -> StartsWithAny(opid_lc, {"uv.", "image.", Pme})
      [] editor_id = "IMAGE_EDITOR" -> StartsWithAny(opid_lc, {"image.", "mask.", "uv.", Pme})
      [] OTHER -> StartsWithAny(opid_lc, family(editor_id)) \/ opid_lc = Pme

_filter_global_rows_for_context(rows, editor_id, mode_str) ==
    LET Allowed(r) == _allow_global_for_editor(r.sig[2], editor_id, mode_str)
    IN  SelectSeq(rows, Allowed)

\* getattr(context, "mode", "OBJECT") or "OBJECT"
ModeStr(m) == IF m = "" THEN "OBJECT" ELSE m

_rows_for_assigned_context(w, pr, m, key_label) ==
    LET mode_str == ModeStr(m)
        ed == _compact_rows(_only_press(get_keymap_matches_in_editor(
                  w, key_label, pr.editor, pr.ctrl, pr.shift, pr.alt, pr.cmd, pr.hide_modal)))
        gl == _filter_global_rows_for_context(
                  _compact_rows(_only_press(get_global_matches(
                      w, key_label, pr.ctrl, pr.shift, pr.alt, pr.cmd, pr.hide_modal))),
                  pr.editor, mode_str)
    IN  IF pr.screen_always_on THEN _compact_rows(ed \o gl) ELSE ed

_rows_for_global_scopes_section(w, pr, key_label) ==
    IF ~pr.screen_always_on THEN <<>>
    ELSE _compact_rows(_only_press(get_global_matches(
             w, key_label, pr.ctrl, pr.shift, pr.alt, pr.cmd, pr.hide_modal)))

(***************************************************************************)
(* The highlight cache.                                                    *)
(***************************************************************************)
\* the fingerprint when no call has stored one yet (Python's None)
NoFingerprint == <<>>

NamedKeyconfig(w, kc_name) ==
    CASE kc_name = "default" -> w.default
      [] kc_name = "user" -> w.user
      [] kc_name = "addon" -> w.addon
      [] kc_name = "active" -> w.active

RECURSIVE SumLen(_)
SumLen(kms) == IF kms = <<>> THEN 0 ELSE Len(Head(kms).keymap_items) + SumLen(Tail(kms))

_compute_keyconfig_fingerprint(w) ==
    [i \in 1..4 |->
        LET kc_name == <<"default", "user", "addon", "active">>[i]
            kc == NamedKeyconfig(w, kc_name)
        IN  IF kc = 0 THEN <<kc_name, 0>> ELSE <<kc_name, SumLen(w.objs[kc].keymaps)>>]

get_cache_key(editor, ctrl, shift, alt, cmd, screen_always_on, hide_modal, mode_str) ==
    <<editor, ctrl, shift, alt, cmd, screen_always_on, hide_modal, mode_str>>

CacheKeyOf(pr, m) ==
    get_cache_key(pr.editor, pr.ctrl, pr.shift, pr.alt, pr.cmd,
                  pr.screen_always_on, pr.hide_modal, ModeStr(m))

_highlight_for(w, pr, m, label) ==
    IF _rows_for_assigned_context(w, pr, m, label) # <<>> THEN TRUE
    ELSE IF _rows_for_global_scopes_section(w, pr, label) # <<>> THEN TRUE
    ELSE FALSE

\* populate_keymap_cache: the cache it leaves (the table is cache[cache_key])
populate_keymap_cache(cache, w, pr, m) ==
    LET cache_key == CacheKeyOf(pr, m) IN
    IF cache_key \in DOMAIN cache THEN cache
    ELSE (cache_key :> [k \in GridKeys |-> _highlight_for(w, pr, m, k)]) @@ cache

(***************************************************************************)
(* Input sets of the operations.                                           *)
(***************************************************************************)
Editors == {"VIEW_3D", "EMPTY"}            \* editors the panel is switched between
Modes == {"OBJECT", "SCULPT"}              \* context.mode values
KeyLabels == {"RETURN", "Q"}               \* labels the panel asks the cache for
PrefFlags == {"ctrl", "cmd", "screen_always_on", "hide_modal"}   \* flags the user toggles

\* arguments of WM_OT_DisableKeymapItem: what the panel passes for a row, and
\* names that match nothing
DisableArgs ==
    LET Arg(kc, km, k) == [kc_name |-> kc, km_name |-> km,
                           item |-> <<k.idname, k.name, k.value, k.key_modifier>>]
    IN  {Arg("Blender", "3D View", ConfirmA),
         Arg("Blender addon", "3D View", ConfirmB),
         Arg("Blender", "3D View", ConfirmB),
         Arg("Blender", "Missing", ConfirmA),
         Arg("Missing", "3D View", ConfirmA)}

(***************************************************************************)
(* Initial state: the add-on registered, nothing cached.                   *)
(***************************************************************************)
DefaultPrefs ==
    [editor |-> "VIEW_3D", screen_always_on |-> TRUE, hide_modal |-> TRUE,
     ctrl |-> FALSE, shift |-> FALSE, alt |-> FALSE, cmd |-> FALSE, selected_key |-> ""]

Init ==
    /\ keyconfigs = CacheKeyconfigs
    /\ prefs = DefaultPrefs
    /\ mode = "OBJECT"
    /\ keymap_cache = <<>>
    /\ last_keyconfig_fingerprint = NoFingerprint
    /\ ret = [op |-> "register"]
    /\ edits = 0
    /\ changes = 0

(***************************************************************************)
(* The host edits its key configuration (Preferences > Keymap, scripts).   *)
(***************************************************************************)
SetItems(w, kc, km, items) ==
    [w EXCEPT !.objs[kc].keymaps[km].keymap_items = items]

HostAddItem(palette) ==
    /\ edits < MaxEdits
    /\ \E kc \in 1..Len(keyconfigs.objs) : \E km \in 1..Len(keyconfigs.objs[kc].keymaps) :
       \E kmi \in palette :
          LET items == keyconfigs.objs[kc].keymaps[km].keymap_items IN
          /\ Len(items) < MaxItems
          /\ keyconfigs' = SetItems(keyconfigs, kc, km, Append(items, kmi))
    /\ edits' = edits + 1
    /\ ret' = [op |-> "host_edit"]
    /\ UNCHANGED <<prefs, mode, keymap_cache, last_keyconfig_fingerprint, changes>>

HostRemoveItem ==
    /\ edits < MaxEdits
    /\ \E p \in Positions(keyconfigs) :
          keyconfigs' = SetItems(keyconfigs, p.kc, p.km,
                                 RemoveAt(KmAt(keyconfigs, p).keymap_items, p.it))
    /\ edits' = edits + 1
    /\ ret' = [op |-> "host_edit"]
    /\ UNCHANGED <<prefs, mode, keymap_cache, last_keyconfig_fingerprint, changes>>

HostSetActive ==
    /\ edits < MaxEdits
    /\ \E p \in Positions(keyconfigs) :
          keyconfigs' = [keyconfigs EXCEPT
              !.objs[p.kc].keymaps[p.km].keymap_items[p.it].active = ~@]
    /\ edits' = edits + 1
    /\ ret' = [op |-> "host_edit"]
    /\ UNCHANGED <<prefs, mode, keymap_cache, last_keyconfig_fingerprint, changes>>

\* the user picks another preset: the active reference moves to the default
\* keyconfig itself or to the preset object
HostSetActivePreset ==
    /\ edits < MaxEdits
    /\ \E kc \in {keyconfigs.default, Len(keyconfigs.objs)} \ {keyconfigs.active} :
          keyconfigs' = [keyconfigs EXCEPT !.active = kc]
    /\ edits' = edits + 1
    /\ ret' = [op |-> "host_edit"]
    /\ UNCHANGED <<prefs, mode, keymap_cache, last_keyconfig_fingerprint, changes>>

(***************************************************************************)
(* The user changes the panel's preferences; the host changes the mode.    *)
(***************************************************************************)
FlipFlag(pr, f) ==
    CASE f = "ctrl" -> [pr EXCEPT !.ctrl = ~@]
      [] f = "shift" -> [pr EXCEPT !.shift = ~@]
      [] f = "alt" -> [pr EXCEPT !.alt = ~@]
      [] f = "cmd" -> [pr EXCEPT !.cmd = ~@]
      [] f = "screen_always_on" -> [pr EXCEPT !.screen_always_on = ~@]
      [] f = "hide_modal" -> [pr EXCEPT !.hide_modal = ~@]

SetEditor ==
    /\ changes < MaxChanges
    /\ \E e \in Editors \ {prefs.editor} : prefs' = [prefs EXCEPT !.editor = e]
    /\ changes' = changes + 1
    /\ ret' = [op |-> "prefs"]
    /\ UNCHANGED <<keyconfigs, mode, keymap_cache, last_keyconfig_fingerprint, edits>>

TogglePref ==
    /\ changes < MaxChanges
    /\ \E f \in PrefFlags : prefs' = FlipFlag(prefs, f)
    /\ changes' = changes + 1
    /\ ret' = [op |-> "prefs"]
    /\ UNCHANGED <<keyconfigs, mode, keymap_cache, last_keyconfig_fingerprint, edits>>

SetMode ==
    /\ changes < MaxChanges
    /\ \E m \in Modes \ {mode} : mode' = m
    /\ changes' = changes + 1
    /\ ret' = [op |-> "mode"]
    /\ UNCHANGED <<keyconfigs, prefs, keymap_cache, last_keyconfig_fingerprint, edits>>

(***************************************************************************)
(* Operations of the add-on.                                               *)
(***************************************************************************)
\* A faulty variant of is_cache_valid: the fingerprints are never compared.
is_cache_valid_always(w, last) == TRUE

\* A faulty variant of clear_keymap_cache: the tables are kept.
clear_keymap_cache_keeps(cache) == cache

\* A faulty variant of is_cache_valid: the cache is never found valid.
is_cache_valid_never(w, last) == FALSE

\* is_cache_valid: the value it returns (it also stores the fingerprint)
is_cache_valid(w, last) == _compute_keyconfig_fingerprint(w) = last

\* clear_keymap_cache: the cache it leaves
clear_keymap_cache(cache) == <<>>

\* is_key_used_cached, for each label the panel may ask for
is_key_used_cached ==
    LET valid == is_cache_valid(keyconfigs, last_keyconfig_fingerprint)
        kept == IF valid THEN keymap_cache ELSE clear_keymap_cache(keymap_cache)
        cache_key == CacheKeyOf(prefs, mode)
        cache == keymap_cache'[cache_key]
    IN  /\ last_keyconfig_fingerprint' = _compute_keyconfig_fingerprint(keyconfigs)
        /\ keymap_cache' = IF cache_key \in DOMAIN kept THEN kept
                           ELSE populate_keymap_cache(kept, keyconfigs, prefs, mode)
        /\ \E key_label \in KeyLabels :
              ret' = [op |-> "is_key_used_cached", key_label |-> key_label,
                      value |-> IF key_label \in DOMAIN cache THEN cache[key_label] ELSE FALSE,
                      valid |-> valid,
                      fresh |-> cache_key \notin DOMAIN kept,
                      had |-> cache_key \in DOMAIN keymap_cache]
        /\ UNCHANGED <<keyconfigs, prefs, mode, edits, changes>>

\* A faulty variant of the lookup below: a keyconfig name that is not found
\* falls back to the first keyconfig of the walk.
DisableTarget_falls_back(w, a) ==
    LET kcs == _iter_all_keyconfigs(w)
        kcHit == {i \in 1..Len(kcs) : w.objs[kcs[i]].name = a.kc_name}
        kc == IF kcHit = {} THEN kcs[1] ELSE kcs[CHOOSE i \in kcHit : \A j \in kcHit : i <= j]
        kms == w.objs[kc].keymaps
        kmHit == {j \in 1..Len(kms) : kms[j].name = a.km_name}
        km == IF kmHit = {} THEN 0 ELSE CHOOSE j \in kmHit : \A k \in kmHit : j <= k
        items == IF km = 0 THEN <<>> ELSE kms[km].keymap_items
        itHit == {n \in 1..Len(items) :
                     <<kms[km].name, items[n].idname, items[n].name, items[n].value,
                       items[n].key_modifier>>
                         = <<a.km_name, a.item[1], a.item[2], a.item[3], a.item[4]>>}
        it == IF itHit = {} THEN 0 ELSE CHOOSE n \in itHit : \A k \in itHit : n <= k
    IN  [kc |-> kc, km |-> km, it |-> it]

\* the keymap item WM_OT_DisableKeymapItem.execute picks: the first keyconfig
\* of the walk with the name, its first keymap with the name, that keymap's
\* first item with the 5-tuple; kc, km or it is 0 where the search fails
DisableTarget(w, a) ==
    LET kcs == _iter_all_keyconfigs(w)
        kcHit == {i \in 1..Len(kcs) : w.objs[kcs[i]].name = a.kc_name}
        kc == IF kcHit = {} THEN 0 ELSE kcs[CHOOSE i \in kcHit : \A j \in kcHit : i <= j]
        kms == IF kc = 0 THEN <<>> ELSE w.objs[kc].keymaps
        kmHit == {j \in 1..Len(kms) : kms[j].name = a.km_name}
        km == IF kmHit = {} THEN 0 ELSE CHOOSE j \in kmHit : \A k \in kmHit : j <= k
        items == IF km = 0 THEN <<>> ELSE kms[km].keymap_items
        itHit == {n \in 1..Len(items) :
                     _sig_for_kmi(kms[km], items[n])
                         = <<a.km_name, a.item[1], a.item[2], a.item[3], a.item[4]>>}
        it == IF itHit = {} THEN 0 ELSE CHOOSE n \in itHit : \A k \in itHit : n <= k
    IN  [kc |-> kc, km |-> km, it |-> it]

WM_OT_DisableKeymapItem_execute(a) ==
    \E t \in {DisableTarget(keyconfigs, a)} :
    IF t.kc = 0 \/ t.km = 0 \/ t.it = 0
    THEN /\ ret' = [op |-> "disable_keymap_item", status |-> "CANCELLED", args |-> a,
                    target |-> t,
                    report |-> IF t.kc = 0 THEN "Keyconfig not found"
                               ELSE IF t.km = 0 THEN "Keymap not found in keyconfig"
                               ELSE "Keymap item not found"]
         /\ UNCHANGED <<keyconfigs, prefs, mode, keymap_cache, last_keyconfig_fingerprint,
                        edits, changes>>
    ELSE /\ edits < MaxEdits
         /\ edits' = edits + 1
         /\ keyconfigs' = [keyconfigs EXCEPT
                !.objs[t.kc].keymaps[t.km].keymap_items[t.it].active = FALSE]
         /\ keymap_cache' = clear_keymap_cache(keymap_cache)
         /\ ret' = [op |-> "disable_keymap_item", status |-> "FINISHED", args |-> a,
                    target |-> t,
                    was_active |-> KmiAt(keyconfigs, t).active,
                    had_tables |-> keymap_cache # <<>>,
                    report |-> "Disabled keymap item"]
         /\ UNCHANGED <<prefs, mode, last_keyconfig_fingerprint, changes>>

DisableKeymapItem == \E a \in DisableArgs : WM_OT_DisableKeymapItem_execute(a)

\* the load_post handler
clear_cache_on_load ==
    /\ keymap_cache' = clear_keymap_cache(keymap_cache)
    /\ ret' = [op |-> "clear_keymap_cache"]
    /\ UNCHANGED <<keyconfigs, prefs, mode, last_keyconfig_fingerprint, edits, changes>>

Next ==
    \/ HostAddItem(CachePalette)
    \/ HostRemoveItem
    \/ HostSetActive
    \/ HostSetActivePreset
    \/ SetEditor
    \/ TogglePref
    \/ SetMode
    \/ is_key_used_cached
    \/ DisableKeymapItem
    \/ clear_cache_on_load

Spec == Init /\ [][Next]_vars

(***************************************************************************)
(* The resolvers, applied to the panel's selection.  The panel asks for    *)
(* the selected key in the selected editor with the modifier toggles as    *)
(* they stand; every selection is a possible start.                        *)
(***************************************************************************)
ResolveLabels == {"RETURN", "A"}

\* the 16 modifier combinations
Flags4 == [ctrl : BOOLEAN, shift : BOOLEAN, alt : BOOLEAN, cmd : BOOLEAN]

ResolvePrefs ==
    {[DefaultPrefs EXCEPT !.selected_key = k, !.editor = e, !.hide_modal = h,
                          !.ctrl = f.ctrl, !.shift = f.shift, !.alt = f.alt, !.cmd = f.cmd] :
        k \in ResolveLabels, e \in Editors, h \in BOOLEAN, f \in Flags4}

InitResolve ==
    /\ keyconfigs \in {BaseKeyconfigs(1), BaseKeyconfigs(4)}
    /\ prefs \in ResolvePrefs
    /\ mode = "OBJECT"
    /\ keymap_cache = <<>>
    /\ last_keyconfig_fingerprint = NoFingerprint
    /\ ret = [op |-> "register"]
    /\ edits = 0
    /\ changes = 0

\* draw: the rows of the selected editor; matched lists the items the loop
\* let through, in the order it met them
ResolveInEditor ==
    /\ prefs.selected_key # ""
    /\ ret' = [op |-> "get_keymap_matches_in_editor",
               matched |-> EditorCandidates(keyconfigs, prefs.selected_key, prefs.editor,
                               prefs.ctrl, prefs.shift, prefs.alt, prefs.cmd, prefs.hide_modal),
               rows |-> get_keymap_matches_in_editor(keyconfigs, prefs.selected_key,
                               prefs.editor, prefs.ctrl, prefs.shift, prefs.alt, prefs.cmd,
                               prefs.hide_modal)]
    /\ UNCHANGED <<keyconfigs, prefs, mode, keymap_cache, last_keyconfig_fingerprint,
                   edits, changes>>

\* draw: the rows of the global scopes
ResolveGlobal ==
    /\ prefs.selected_key # ""
    /\ prefs.screen_always_on
    /\ ret' = [op |-> "get_global_matches",
               matched |-> GlobalCandidates(keyconfigs, prefs.selected_key,
                               prefs.ctrl, prefs.shift, prefs.alt, prefs.cmd, prefs.hide_modal),
               rows |-> get_global_matches(keyconfigs, prefs.selected_key,
                               prefs.ctrl, prefs.shift, prefs.alt, prefs.cmd, prefs.hide_modal)]
    /\ UNCHANGED <<keyconfigs, prefs, mode, keymap_cache, last_keyconfig_fingerprint,
                   edits, changes>>

NextResolve ==
    \/ HostAddItem(Palette)
    \/ HostRemoveItem
    \/ HostSetActive
    \/ HostSetActivePreset
    \/ ResolveInEditor
    \/ ResolveGlobal

SpecResolve == InitResolve /\ [][NextResolve]_vars

(***************************************************************************)
(* _compact_rows, applied to row lists and to its own output (as           *)
(* _rows_for_assigned_context does: ed is compacted, then merged is).      *)
(***************************************************************************)
RowKeyMaps == {KeyMap("3D View", "VIEW_3D", FALSE, <<>>), KeyMap("Window", "EMPTY", FALSE, <<>>)}
RowItems == {ConfirmA, [ConfirmA EXCEPT !.value = "RELEASE"], SearchRel}
RowNames == {<<"Blender">>, <<"Blender user">>}

RowPalette == {Row(n, km, kmi) : n \in RowNames, km \in RowKeyMaps, kmi \in RowItems}

RowLists == UNION {[1..n -> RowPalette] : n \in 0..MaxRows}

InitRows ==
    /\ keyconfigs = BaseKeyconfigs(1)
    /\ prefs = DefaultPrefs
    /\ mode = "OBJECT"
    /\ keymap_cache = <<>>
    /\ last_keyconfig_fingerprint = NoFingerprint
    /\ ret \in {[op |-> "rows", rows |-> rows] : rows \in RowLists}
    /\ edits = 0
    /\ changes = 0

CompactRows ==
    /\ ret.op \in {"rows", "_compact_rows"}
    /\ IF ret.op = "rows"
       THEN ret' = [op |-> "_compact_rows", input |-> ret.rows, prev |-> ret.rows,
                    rows |-> _compact_rows(ret.rows), applied |-> 1]
       ELSE /\ ret.applied < MaxApplications
            /\ ret' = [ret EXCEPT !.prev = ret.rows, !.rows = _compact_rows(ret.rows),
                                  !.applied = @ + 1]
    /\ UNCHANGED <<keyconfigs, prefs, mode, keymap_cache, last_keyconfig_fingerprint,
                   edits, changes>>

NextRows == CompactRows

SpecRows == InitRows /\ [][NextRows]_vars

(***************************************************************************)
(* The editor resolver with the layers met in another order.  The walk of  *)
(* _iter_all_keyconfigs fixes one order; the loops of the resolver are run *)
(* here over every arrangement of the same layers.                         *)
(***************************************************************************)
\* every arrangement of the sequence kcs
Arrangements(kcs) ==
    {[i \in 1..Len(kcs) |-> kcs[f[i]]] :
        f \in {g \in [1..Len(kcs) -> 1..Len(kcs)] :
                  \A i, j \in 1..Len(kcs) : i # j => g[i] # g[j]}}

LayerPrefs ==
    {[DefaultPrefs EXCEPT !.selected_key = k, !.ctrl = c] : k \in ResolveLabels, c \in BOOLEAN}

InitLayers ==
    /\ keyconfigs \in {BaseKeyconfigs(1), BaseKeyconfigs(4)}
    /\ prefs \in LayerPrefs
    /\ mode = "OBJECT"
    /\ keymap_cache = <<>>
    /\ last_keyconfig_fingerprint = NoFingerprint
    /\ ret = [op |-> "register"]
    /\ edits = 0
    /\ changes = 0

\* the loops of get_keymap_matches_in_editor (lines 573-610) over the layers
\* in the order kcs; base is what the resolver itself returns
ResolveInEditorOn ==
    /\ prefs.selected_key # ""
    /\ \E base \in {get_keymap_matches_in_editor(keyconfigs, prefs.selected_key, prefs.editor,
                         prefs.ctrl, prefs.shift, prefs.alt, prefs.cmd, prefs.hide_modal)} :
       \E kcs \in Arrangements(_iter_all_keyconfigs(keyconfigs)) :
          ret' = [op |-> "get_keymap_matches_in_editor_on",
                  kcs |-> kcs,
                  rows |-> RowsOf(keyconfigs, MergeBySig(keyconfigs,
                              EditorCandidatesOn(keyconfigs, kcs, prefs.selected_key,
                                  prefs.editor, prefs.ctrl, prefs.shift, prefs.alt, prefs.cmd,
                                  prefs.hide_modal), <<>>)),
                  base |-> base]
    /\ UNCHANGED <<keyconfigs, prefs, mode, keymap_cache, last_keyconfig_fingerprint,
                   edits, changes>>

NextLayers ==
    \/ HostAddItem(Palette)
    \/ HostRemoveItem
    \/ HostSetActive
    \/ HostSetActivePreset
    \/ ResolveInEditorOn

SpecLayers == InitLayers /\ [][NextLayers]_vars

(***************************************************************************)
(* get_keymap_conflicts, applied to the panel's selection.                 *)
(***************************************************************************)
ConfirmARel == [ConfirmA EXCEPT !.value = "RELEASE"]

ConflictPalette == {ConfirmA, ConfirmB, ConfirmARel, PlayAnim}

\* a configuration with two groups of the 3D View and one global group
ConflictKeyconfigs ==
    [objs |-> <<
        KeyConfig("Blender", <<
            KeyMap("3D View", "VIEW_3D", FALSE, <<ConfirmA>>),
            KeyMap("3D View Generic", "VIEW_3D", FALSE, <<>>),
            KeyMap("Window", "EMPTY", FALSE, <<PlayAnim>>) >>),
        KeyConfig("Blender addon", <<
            KeyMap("3D View", "VIEW_3D", FALSE, <<>>) >>),
        KeyConfig("Blender user", <<
            KeyMap("3D View", "VIEW_3D", FALSE, <<>>) >>) >>,
     default |-> 1, user |-> 3, addon |-> 2, active |-> 1]

ConflictPrefs ==
    {[DefaultPrefs EXCEPT !.selected_key = k, !.editor = e, !.ctrl = c] :
        k \in ResolveLabels, e \in Editors, c \in BOOLEAN}

InitConflicts ==
    /\ keyconfigs = ConflictKeyconfigs
    /\ prefs \in ConflictPrefs
    /\ mode = "OBJECT"
    /\ keymap_cache = <<>>
    /\ last_keyconfig_fingerprint = NoFingerprint
    /\ ret = [op |-> "register"]
    /\ edits = 0
    /\ changes = 0

\* draw: the five lists for the selected key; matched and global_matched
\* list the items the two resolvers let through
Conflicts ==
    /\ prefs.selected_key # ""
    /\ ret' = [op |-> "get_keymap_conflicts",
               matched |-> EditorCandidates(keyconfigs, prefs.selected_key, prefs.editor,
                               prefs.ctrl, prefs.shift, prefs.alt, prefs.cmd, prefs.hide_modal),
               global_matched |-> GlobalCandidates(keyconfigs, prefs.selected_key,
                               prefs.ctrl, prefs.shift, prefs.alt, prefs.cmd, prefs.hide_modal),
               lists |-> get_keymap_conflicts(keyconfigs, prefs.selected_key, prefs.editor,
                               prefs.ctrl, prefs.shift, prefs.alt, prefs.cmd,
                               prefs.screen_always_on, prefs.hide_modal)]
    /\ UNCHANGED <<keyconfigs, prefs, mode, keymap_cache, last_keyconfig_fingerprint,
                   edits, changes>>

NextConflicts ==
    \/ HostAddItem(ConflictPalette)
    \/ HostRemoveItem
    \/ HostSetActive
    \/ HostSetActivePreset
    \/ Conflicts

SpecConflicts == InitConflicts /\ [][NextConflicts]_vars

(***************************************************************************)
(* is_relevant_keymap and the scope test of get_global_matches, applied to *)
(* one keymap of any name and space type.                                  *)
(***************************************************************************)
ScopeNames == {"3D View", "UV Editor", "Image", "Window", "Screen Editing"}
ScopeSpaces == {"VIEW_3D", "IMAGE_EDITOR", "EMPTY", "SCREEN", ""}
ScopeEditors == {"VIEW_3D", "IMAGE_EDITOR", "UV", "EMPTY", "SCREEN"}

\* the keymap names of the model that hold one of the words Window, Screen,
\* Global, PME
NameHasGlobalKeyword(name) == name \in {"Window", "Screen Editing"}

\* a configuration of one keyconfig with one keymap that binds A
ScopeKeyconfigs(name, space_type) ==
    [objs |-> << KeyConfig("Blender", << KeyMap(name, space_type, FALSE, <<PlayAnim>>) >>) >>,
     default |-> 1, user |-> 0, addon |-> 0, active |-> 1]

InitScope ==
    /\ keyconfigs \in {ScopeKeyconfigs(n, t) : n \in ScopeNames, t \in ScopeSpaces}
    /\ prefs \in {[DefaultPrefs EXCEPT !.selected_key = "A", !.editor = e] : e \in ScopeEditors}
    /\ mode = "OBJECT"
    /\ keymap_cache = <<>>
    /\ last_keyconfig_fingerprint = NoFingerprint
    /\ ret = [op |-> "register"]
    /\ edits = 0
    /\ changes = 0

\* the test get_keymap_matches_in_editor makes on each keymap
IsRelevantKeymap ==
    /\ \E p \in Positions(keyconfigs) :
          ret' = [op |-> "is_relevant_keymap", km |-> KmAt(keyconfigs, p),
                  editor |-> prefs.editor,
                  result |-> is_relevant_keymap(KmAt(keyconfigs, p), prefs.editor)]
    /\ UNCHANGED <<keyconfigs, prefs, mode, keymap_cache, last_keyconfig_fingerprint,
                   edits, changes>>

NextScope ==
    \/ IsRelevantKeymap
    \/ ResolveInEditor
    \/ ResolveGlobal

SpecScope == InitScope /\ [][NextScope]_vars

(***************************************************************************)
(* _iter_all_keyconfigs, applied to configurations in which any of the     *)
(* four named references is absent or resolves to the same keyconfig as    *)
(* another.                                                                *)
(***************************************************************************)
WalkKeyconfigs(d, u, a, act) ==
    [objs |-> << KeyConfig("Blender", <<>>), KeyConfig("Blender addon", <<>>),
                 KeyConfig("Custom", <<>>) >>,
     default |-> d, user |-> u, addon |-> a, active |-> act]

InitWalk ==
    /\ keyconfigs \in {WalkKeyconfigs(d, u, a, act) : d, u, a, act \in 0..3}
    /\ prefs = DefaultPrefs
    /\ mode = "OBJECT"
    /\ keymap_cache = <<>>
    /\ last_keyconfig_fingerprint = NoFingerprint
    /\ ret = [op |-> "register"]
    /\ edits = 0
    /\ changes = 0

\* one call: the keyconfigs it yields, in order
IterAllKeyconfigs ==
    /\ ret' = [op |-> "_iter_all_keyconfigs", kcs |-> _iter_all_keyconfigs(keyconfigs),
               calls |-> IF ret.op = "_iter_all_keyconfigs" THEN 2 ELSE 1]
    /\ UNCHANGED <<keyconfigs, prefs, mode, keymap_cache, last_keyconfig_fingerprint,
                   edits, changes>>

NextWalk ==
    \/ HostSetActivePreset
    \/ IterAllKeyconfigs

SpecWalk == InitWalk /\ [][NextWalk]_vars

(***************************************************************************)
(* The resolvers asked for the grave key, over items bound to either of    *)
(* the two tokens the host's versions give that key.                       *)
(***************************************************************************)
PieAccentGrave == Kmi("wm.call_menu_pie", "Call Pie Menu", "ACCENT_GRAVE",
                      FALSE, FALSE, FALSE, FALSE, FALSE, "PRESS", "NONE", TRUE)
FlyGrave == Kmi("view3d.fly", "Fly Navigation", "GRAVE",
                FALSE, FALSE, FALSE, FALSE, FALSE, "PRESS", "NONE", TRUE)
WalkGraveShift == Kmi("view3d.walk", "Walk Navigation", "GRAVE",
                      FALSE, TRUE, FALSE, FALSE, FALSE, "PRESS", "NONE", TRUE)

GravePalette == {PieAccentGrave, FlyGrave, WalkGraveShift, ConfirmA}

GraveKeyconfigs ==
    [objs |-> <<
        KeyConfig("Blender", <<
            KeyMap("3D View", "VIEW_3D", FALSE, <<PieAccentGrave>>),
            KeyMap("Window", "EMPTY", FALSE, <<>>) >>),
        KeyConfig("Blender user", <<
            KeyMap("3D View", "VIEW_3D", FALSE, <<>>) >>) >>,
     default |-> 1, user |-> 2, addon |-> 0, active |-> 1]

GravePrefs ==
    {[DefaultPrefs EXCEPT !.selected_key = k, !.shift = sh] :
        k \in {Backquote, "RETURN"}, sh \in BOOLEAN}

InitGrave ==
    /\ keyconfigs = GraveKeyconfigs
    /\ prefs \in GravePrefs
    /\ mode = "OBJECT"
    /\ keymap_cache = <<>>
    /\ last_keyconfig_fingerprint = NoFingerprint
    /\ ret = [op |-> "register"]
    /\ edits = 0
    /\ changes = 0

NextGrave ==
    \/ HostAddItem(GravePalette)
    \/ HostRemoveItem
    \/ HostSetActive
    \/ ResolveInEditor
    \/ ResolveGlobal

SpecGrave == InitGrave /\ [][NextGrave]_vars

(***************************************************************************)
(* The resolvers over keymap items that lack an attribute.  The code reads *)
(* some attributes with getattr and a default and the others directly; a   *)
(* direct read of an absent attribute raises AttributeError, and no        *)
(* resolver catches it.                                                    *)
(***************************************************************************)
KmiFields == {"idname", "name", "type", "ctrl", "shift", "alt", "oskey", "any", "value",
              "key_modifier", "active"}

\* the keymap item without the attribute f
Without(kmi, f) == [g \in (DOMAIN kmi) \ {f} |-> kmi[g]]

hasattr(o, f) == f \in DOMAIN o

getattr(o, f, default) == IF f \in DOMAIN o THEN o[f] ELSE default

\* the defaults of the getattr calls of the resolvers and their helpers
GetattrDefault(f) ==
    CASE f = "value" -> "PRESS"
      [] f = "key_modifier" -> "NONE"
      [] f = "type" -> "None"
      [] f \in {"idname", "name"} -> ""
      [] f = "active" -> TRUE
      [] OTHER -> FALSE

\* the item as the getattr calls see it
WithDefaults(kmi) == [f \in KmiFields |-> getattr(kmi, f, GetattrDefault(f))]

StoreWithDefaults(w) ==
    [w EXCEPT !.objs =
        [a \in 1..Len(w.objs) |->
            [w.objs[a] EXCEPT !.keymaps =
                [b \in 1..Len(w.objs[a].keymaps) |->
                    [w.objs[a].keymaps[b] EXCEPT !.keymap_items =
                        [c \in 1..Len(w.objs[a].keymaps[b].keymap_items) |->
                            WithDefaults(w.objs[a].keymaps[b].keymap_items[c])]]]]]]

\* _collect_disabled_binding_sigs raises: an item of the user or the active
\* layer that is inactive (absent: active) has no idname for
\* _full_binding_sig
CollectRaises(w) ==
    \E p \in Positions(w) :
        /\ p.kc \in ({w.user, w.active} \ {0})
        /\ ~getattr(KmiAt(w, p), "active", TRUE)
        /\ ~hasattr(KmiAt(w, p), "idname")

\* _modifiers_match raises: the flags are read in the order ctrl, shift,
\* alt, oskey, up to the first that differs from the request
ModifiersRaise(kmi, ctrl, shift, alt, cmd) ==
    IF getattr(kmi, "any", FALSE) THEN FALSE
    ELSE IF ~hasattr(kmi, "ctrl") THEN TRUE
    ELSE IF kmi.ctrl # ctrl THEN FALSE
    ELSE IF ~hasattr(kmi, "shift") THEN TRUE
    ELSE IF kmi.shift # shift THEN FALSE
    ELSE IF ~hasattr(kmi, "alt") THEN TRUE
    ELSE IF kmi.alt # alt THEN FALSE
    ELSE ~hasattr(kmi, "oskey")

\* the body of the item loop raises for the item at p; disabled_bindings is
\* the mask _collect_disabled_binding_sigs returned, editor is "UV" where the
\* loop applies the extra UV test (which reads with getattr)
ItemRaises(w, p, key_types, editor, ctrl, shift, alt, cmd, disabled_bindings) ==
    LET kmi == KmiAt(w, p)
        full == WithDefaults(kmi)
    IN  IF ~hasattr(kmi, "active") THEN TRUE
        ELSE IF ~kmi.active THEN FALSE
        ELSE IF ~hasattr(kmi, "type") THEN TRUE
        ELSE IF kmi.type \notin Range(key_types) THEN FALSE
        ELSE IF ModifiersRaise(kmi, ctrl, shift, alt, cmd) THEN TRUE
        ELSE IF ~_modifiers_match(full, ctrl, shift, alt, cmd) THEN FALSE
        ELSE IF ~hasattr(kmi, "idname") THEN TRUE
        ELSE IF _full_binding_sig(KmAt(w, p), full) \in disabled_bindings THEN FALSE
        ELSE IF ~UvStrict(full, editor) THEN FALSE
        ELSE ~hasattr(kmi, "name")

\* get_keymap_matches_in_editor raises
EditorRaises(w, key_label, editor, ctrl, shift, alt, cmd, hide_modal) ==
    \/ CollectRaises(w)
    \/ \E p \in Positions(w) :
          /\ ~(hide_modal /\ KmAt(w, p).is_modal)
          /\ is_relevant_keymap(KmAt(w, p), editor)
          /\ ItemRaises(w, p, normalize_key_types(key_label), editor, ctrl, shift, alt, cmd,
                        _collect_disabled_binding_sigs(StoreWithDefaults(w)))

\* get_global_matches raises
GlobalRaises(w, key_label, ctrl, shift, alt, cmd, hide_modal) ==
    \/ CollectRaises(w)
    \/ \E p \in Positions(w) :
          /\ ~(hide_modal /\ KmAt(w, p).is_modal)
          /\ SpaceOf(KmAt(w, p)) \in {"EMPTY", "SCREEN"}
          /\ ItemRaises(w, p, normalize_key_types(key_label), "", ctrl, shift, alt, cmd,
                        _collect_disabled_binding_sigs(StoreWithDefaults(w)))

\* the configurations in which one item lacks one attribute
PartialKeyconfigs ==
    {[BaseKeyconfigs(1) EXCEPT !.objs[p.kc].keymaps[p.km].keymap_items[p.it] = Without(@, f)] :
        p \in Positions(BaseKeyconfigs(1)), f \in KmiFields}

PartialPrefs ==
    {[DefaultPrefs EXCEPT !.selected_key = k, !.ctrl = c, !.hide_modal = h] :
        k \in ResolveLabels, c \in BOOLEAN, h \in BOOLEAN}

InitPartial ==
    /\ keyconfigs \in PartialKeyconfigs
    /\ prefs \in PartialPrefs
    /\ mode = "OBJECT"
    /\ keymap_cache = <<>>
    /\ last_keyconfig_fingerprint = NoFingerprint
    /\ ret = [op |-> "register"]
    /\ edits = 0
    /\ changes = 0

\* draw: the rows of the selected editor, or the exception
ResolveInEditorPartial ==
    /\ prefs.selected_key # ""
    /\ ret' = IF EditorRaises(keyconfigs, prefs.selected_key, prefs.editor, prefs.ctrl,
                              prefs.shift, prefs.alt, prefs.cmd, prefs.hide_modal)
              THEN [op |-> "get_keymap_matches_in_editor", status |-> "AttributeError"]
              ELSE [op |-> "get_keymap_matches_in_editor", status |-> "returned",
                    rows |-> get_keymap_matches_in_editor(StoreWithDefaults(keyconfigs),
                                prefs.selected_key, prefs.editor, prefs.ctrl, prefs.shift,
                                prefs.alt, prefs.cmd, prefs.hide_modal)]
    /\ UNCHANGED <<keyconfigs, prefs, mode, keymap_cache, last_keyconfig_fingerprint,
                   edits, changes>>

\* draw: the rows of the global scopes, or the exception
ResolveGlobalPartial ==
    /\ prefs.selected_key # ""
    /\ prefs.screen_always_on
    /\ ret' = IF GlobalRaises(keyconfigs, prefs.selected_key, prefs.ctrl, prefs.shift,
                              prefs.alt, prefs.cmd, prefs.hide_modal)
              THEN [op |-> "get_global_matches", status |-> "AttributeError"]
              ELSE [op |-> "get_global_matches", status |-> "returned",
                    rows |-> get_global_matches(StoreWithDefaults(keyconfigs),
                                prefs.selected_key, prefs.ctrl, prefs.shift, prefs.alt,
                                prefs.cmd, prefs.hide_modal)]
    /\ UNCHANGED <<keyconfigs, prefs, mode, keymap_cache, last_keyconfig_fingerprint,
                   edits, changes>>

\* draw: the five lists, or the exception of the resolver that raises
ConflictsPartial ==
    /\ prefs.selected_key # ""
    /\ ret' = IF \/ EditorRaises(keyconfigs, prefs.selected_key, prefs.editor, prefs.ctrl,
                                 prefs.shift, prefs.alt, prefs.cmd, prefs.hide_modal)
                 \/ GlobalRaises(keyconfigs, prefs.selected_key, prefs.ctrl, prefs.shift,
                                 prefs.alt, prefs.cmd, prefs.hide_modal)
              THEN [op |-> "get_keymap_conflicts", status |-> "AttributeError"]
              ELSE [op |-> "get_keymap_conflicts", status |-> "returned",
                    lists |-> get_keymap_conflicts(StoreWithDefaults(keyconfigs),
                                prefs.selected_key, prefs.editor, prefs.ctrl, prefs.shift,
                                prefs.alt, prefs.cmd, prefs.screen_always_on,
                                prefs.hide_modal)]
    /\ UNCHANGED <<keyconfigs, prefs, mode, keymap_cache, last_keyconfig_fingerprint,
                   edits, changes>>

NextPartial ==
    \/ ResolveInEditorPartial
    \/ ResolveGlobalPartial
    \/ ConflictsPartial

SpecPartial == InitPartial /\ [][NextPartial]_vars

(***************************************************************************)
(* The resolvers asked for a digit of the main row and for a digit of the  *)
(* numpad (the label populate_keymap_cache builds for the numpad grid).    *)
(***************************************************************************)
HideThree == Kmi("object.hide_collection", "Hide Collection", "THREE",
                 FALSE, FALSE, FALSE, FALSE, FALSE, "PRESS", "NONE", TRUE)
ViewNumpad3 == Kmi("view3d.view_axis", "View Axis", "NUMPAD_3",
                   FALSE, FALSE, FALSE, FALSE, FALSE, "PRESS", "NONE", TRUE)
HideOne == Kmi("object.hide_collection_one", "Hide Collection 1", "ONE",
               FALSE, FALSE, FALSE, FALSE, FALSE, "PRESS", "NONE", TRUE)
ViewNumpad1 == Kmi("view3d.view_front", "View Front", "NUMPAD_1",
                   FALSE, FALSE, FALSE, FALSE, FALSE, "PRESS", "NONE", TRUE)

DigitPalette == {HideThree, ViewNumpad3, HideOne, ViewNumpad1}

DigitKeyconfigs ==
    [objs |-> <<
        KeyConfig("Blender", <<
            KeyMap("3D View", "VIEW_3D", FALSE, <<HideThree, ViewNumpad3>>),
            KeyMap("Window", "EMPTY", FALSE, <<ViewNumpad1>>) >>),
        KeyConfig("Blender user", <<
            KeyMap("3D View", "VIEW_3D", FALSE, <<>>) >>) >>,
     default |-> 1, user |-> 2, addon |-> 0, active |-> 1]

\* the digits of the main row the model asks for
Digits == {"1", "3"}

DigitPrefs ==
    {[DefaultPrefs EXCEPT !.selected_key = k] :
        k \in Digits \cup {NumpadKeyId(d) : d \in Digits}}

InitDigits ==
    /\ keyconfigs = DigitKeyconfigs
    /\ prefs \in DigitPrefs
    /\ mode = "OBJECT"
    /\ keymap_cache = <<>>
    /\ last_keyconfig_fingerprint = NoFingerprint
    /\ ret = [op |-> "register"]
    /\ edits = 0
    /\ changes = 0

NextDigits ==
    \/ HostAddItem(DigitPalette)
    \/ HostRemoveItem
    \/ HostSetActive
    \/ ResolveInEditor
    \/ ResolveGlobal

SpecDigits == InitDigits /\ [][NextDigits]_vars

(***************************************************************************)
(* The resolvers asked for labels no table of normalize_key_types lists.   *)
(***************************************************************************)
PlayMedia == Kmi("screen.animation_play", "Play Animation", "MEDIA_PLAY",
                 FALSE, FALSE, FALSE, FALSE, FALSE, "PRESS", "NONE", TRUE)

\* labels absent from special, num_map and punct, not F<n>, not an arrow
UnknownLabels == {"MEDIA_PLAY", "FOO", "F", ""}

UnknownPalette == {PlayMedia, ConfirmA, PlayAnim}

UnknownKeyconfigs ==
    [objs |-> <<
        KeyConfig("Blender", <<
            KeyMap("3D View", "VIEW_3D", FALSE, <<ConfirmA>>),
            KeyMap("Window", "EMPTY", FALSE, <<PlayAnim>>) >>),
        KeyConfig("Blender user", <<
            KeyMap("3D View", "VIEW_3D", FALSE, <<>>) >>) >>,
     default |-> 1, user |-> 2, addon |-> 0, active |-> 1]

UnknownPrefs ==
    {[DefaultPrefs EXCEPT !.selected_key = k, !.ctrl = c] :
        k \in {"MEDIA_PLAY", "FOO", "F"}, c \in BOOLEAN}

InitUnknown ==
    /\ keyconfigs = UnknownKeyconfigs
    /\ prefs \in UnknownPrefs
    /\ mode = "OBJECT"
    /\ keymap_cache = <<>>
    /\ last_keyconfig_fingerprint = NoFingerprint
    /\ ret = [op |-> "register"]
    /\ edits = 0
    /\ changes = 0

NextUnknown ==
    \/ HostAddItem(UnknownPalette)
    \/ HostRemoveItem
    \/ HostSetActive
    \/ ResolveInEditor
    \/ ResolveGlobal

SpecUnknown == InitUnknown /\ [][NextUnknown]_vars

(***************************************************************************)
(* The panel: draw reads the highlight of every grid key through           *)
(* is_key_used_cached and, for the selected key, builds the lists it       *)
(* shows; a click on a key runs WM_OT_SelectKey.                           *)
(***************************************************************************)
\* is_key_used_cached: the cache it leaves
cache_after_read(cache, last, w, pr, m) ==
    populate_keymap_cache(IF is_cache_valid(w, last) THEN cache ELSE clear_keymap_cache(cache),
                          w, pr, m)

\* A faulty variant of cache.get(key_label, False): the default is True.
cache_get_default_true(cache, key_label) ==
    IF key_label \in DOMAIN cache THEN cache[key_label] ELSE TRUE

\* cache.get(key_label, False)
cache_get(cache, key_label) ==
    IF key_label \in DOMAIN cache THEN cache[key_label] ELSE FALSE

\* draw, "Assigned in current context": merged_rows
draw_merged_rows(w, pr, m, key_label) ==
    LET editor_only_rows == _compact_rows(_only_press(get_keymap_matches_in_editor(
                 w, key_label, pr.editor, pr.ctrl, pr.shift, pr.alt, pr.cmd, pr.hide_modal)))
        gl_all == _filter_global_rows_for_context(
                      _compact_rows(_only_press(get_global_matches(
                          w, key_label, pr.ctrl, pr.shift, pr.alt, pr.cmd, pr.hide_modal))),
                      pr.editor, ModeStr(m))
    IN  IF pr.screen_always_on THEN _compact_rows(editor_only_rows \o gl_all)
        ELSE editor_only_rows

\* draw, "In global scopes": gl_rows_all
draw_gl_rows_all(w, pr, m, key_label) ==
    IF ~pr.screen_always_on THEN <<>>
    ELSE _filter_global_rows_for_context(
             _only_press(_compact_rows(get_global_matches(
                 w, key_label, pr.ctrl, pr.shift, pr.alt, pr.cmd, pr.hide_modal))),
             pr.editor, ModeStr(m))

\* A faulty variant of the assignment of WM_OT_SelectKey: the key is
\* selected whether it is assigned or not.
select_key_always(pr, key, assigned) == [pr EXCEPT !.selected_key = key]

\* WM_OT_SelectKey.execute: if assigned: prefs.selected_key = self.key
select_key(pr, key, assigned) ==
    IF assigned THEN [pr EXCEPT !.selected_key = key] ELSE pr

PanelPalette == {ConfirmB, PlayAnim, PlayMedia}

PanelKeyconfigs ==
    [objs |-> <<
        KeyConfig("Blender", <<
            KeyMap("3D View", "VIEW_3D", FALSE, <<ConfirmA, PlayMedia>>),
            KeyMap("Window", "EMPTY", FALSE, <<PlayAnim>>) >>),
        KeyConfig("Blender user", <<
            KeyMap("3D View", "VIEW_3D", FALSE, <<>>) >>) >>,
     default |-> 1, user |-> 2, addon |-> 0, active |-> 1]

\* the keys clicked: of the grid (the last one on the numpad), and one label
\* that is in no grid
ClickedKeys == {"RETURN", "A", "Q", "NUMPAD_3", "MEDIA_PLAY"}

InitPanel ==
    /\ keyconfigs = PanelKeyconfigs
    /\ prefs = DefaultPrefs
    /\ mode = "OBJECT"
    /\ keymap_cache = <<>>
    /\ last_keyconfig_fingerprint = NoFingerprint
    /\ ret = [op |-> "register"]
    /\ edits = 0
    /\ changes = 0

\* VIEW3D_PT_KeymapChecker.draw
draw ==
    /\ last_keyconfig_fingerprint' = _compute_keyconfig_fingerprint(keyconfigs)
    /\ keymap_cache' = cache_after_read(keymap_cache, last_keyconfig_fingerprint,
                                        keyconfigs, prefs, mode)
    /\ ret' = IF prefs.selected_key = ""
              THEN [op |-> "draw", selected_key |-> ""]
              ELSE [op |-> "draw", selected_key |-> prefs.selected_key,
                    is_used |-> cache_get(keymap_cache'[CacheKeyOf(prefs, mode)],
                                          prefs.selected_key),
                    merged_rows |-> draw_merged_rows(keyconfigs, prefs, mode,
                                                     prefs.selected_key),
                    gl_rows_all |-> draw_gl_rows_all(keyconfigs, prefs, mode,
                                                     prefs.selected_key)]
    /\ UNCHANGED <<keyconfigs, prefs, mode, edits, changes>>

WM_OT_SelectKey_execute(key) ==
    /\ last_keyconfig_fingerprint' = _compute_keyconfig_fingerprint(keyconfigs)
    /\ keymap_cache' = cache_after_read(keymap_cache, last_keyconfig_fingerprint,
                                        keyconfigs, prefs, mode)
    /\ \E assigned \in {cache_get(keymap_cache'[CacheKeyOf(prefs, mode)], key)} :
          /\ prefs' = select_key(prefs, key, assigned)
          /\ ret' = [op |-> "select_keymap_key", key |-> key, assigned |-> assigned,
                     status |-> "FINISHED"]
    /\ UNCHANGED <<keyconfigs, mode, edits, changes>>

SelectKey == \E key \in ClickedKeys : WM_OT_SelectKey_execute(key)

NextPanel ==
    \/ HostAddItem(PanelPalette)
    \/ HostSetActive
    \/ TogglePref
    \/ SetMode
    \/ draw
    \/ SelectKey

SpecPanel == InitPanel /\ [][NextPanel]_vars

(***************************************************************************)
(* The deactivate button of the conflict rows: draw shows the lists of     *)
(* get_keymap_conflicts compacted, and each row carries a button that runs *)
(* WM_OT_DisableKeymapItem with the row's first keyconfig name, its group  *)
(* name and the rest of its signature.                                     *)
(***************************************************************************)
\* op_disable.kc_name = kc_names[0]; op_disable.km_name = sig[0]; ...
RowDisableArgs(row) ==
    [kc_name |-> row.kc_names[1], km_name |-> row.sig[1],
     item |-> <<row.sig[2], row.sig[3], row.sig[4], row.sig[5]>>]

\* the arguments of the buttons draw lays out for the five lists
PanelDisableArgs(lists) ==
    LET intra == _compact_rows(lists.intra_editor_conflicts)
        ed == _compact_rows(lists.editor_overlap_rows)
        gl == _compact_rows(lists.global_overlap_rows)
        shown == intra \o (IF ed # <<>> /\ gl # <<>> THEN ed \o gl ELSE <<>>)
    IN  {RowDisableArgs(shown[i]) : i \in 1..Len(shown)}

DeactivatePalette == {ConfirmA, ConfirmB, ConfirmACtrl, PlayAnim}

\* the operator object.confirm_a is bound twice in the 3D View, with and
\* without ctrl, under the same name
DeactivateKeyconfigs ==
    [objs |-> <<
        KeyConfig("Blender", <<
            KeyMap("3D View", "VIEW_3D", FALSE, <<ConfirmACtrl, ConfirmA, ConfirmB>>),
            KeyMap("Window", "EMPTY", FALSE, <<PlayAnim>>) >>),
        KeyConfig("Blender user", <<
            KeyMap("3D View", "VIEW_3D", FALSE, <<>>) >>) >>,
     default |-> 1, user |-> 2, addon |-> 0, active |-> 1]

DeactivatePrefs ==
    {[DefaultPrefs EXCEPT !.selected_key = k, !.editor = e, !.ctrl = c] :
        k \in ResolveLabels, e \in Editors, c \in BOOLEAN}

InitDeactivate ==
    /\ keyconfigs = DeactivateKeyconfigs
    /\ prefs \in DeactivatePrefs
    /\ mode = "OBJECT"
    /\ keymap_cache = <<>>
    /\ last_keyconfig_fingerprint = NoFingerprint
    /\ ret = [op |-> "register"]
    /\ edits = 0
    /\ changes = 0

\* a click on the button of a row of the conflict lists last drawn
DisableRow ==
    /\ ret.op = "get_keymap_conflicts"
    /\ \E a \in PanelDisableArgs(ret.lists) : WM_OT_DisableKeymapItem_execute(a)

NextDeactivate ==
    \/ HostAddItem(DeactivatePalette)
    \/ HostSetActive
    \/ Conflicts
    \/ DisableRow

SpecDeactivate == InitDeactivate /\ [][NextDeactivate]_vars

(***************************************************************************)
(* The PRESS filter and the compaction, applied to a row list in the two   *)
(* orders draw uses: "Assigned in current context" filters first, "In      *)
(* global scopes" compacts first.                                          *)
(***************************************************************************)
FilterAndCompact ==
    /\ ret.op = "rows"
    /\ ret' = [op |-> "_only_press/_compact_rows", input |-> ret.rows,
               press_first |-> _compact_rows(_only_press(ret.rows)),
               compact_first |-> _only_press(_compact_rows(ret.rows))]
    /\ UNCHANGED <<keyconfigs, prefs, mode, keymap_cache, last_keyconfig_fingerprint,
                   edits, changes>>

NextPress == FilterAndCompact

SpecPress == InitRows /\ [][NextPress]_vars

(***************************************************************************)
(* Properties of the highlight cache (under Spec).                         *)
(***************************************************************************)
\* the boolean a direct, uncached computation gives for a label
DirectHighlight(w, pr, m, key_label) ==
    key_label \in GridKeys /\ _highlight_for(w, pr, m, key_label)

\* C1: whenever is_key_used_cached has returned, the boolean it returned for
\* the key equals the boolean a direct highlight computation over the current
\* configuration gives for the same key and the same query key.
C1_CacheNeverDiverges ==
    ret.op = "is_key_used_cached"
        => ret.value = DirectHighlight(keyconfigs, prefs, mode, ret.key_label)

\* C2: a call of is_key_used_cached that finds no table for its query key
\* (the cache was cleared) or finds the configuration's fingerprint different
\* from the stored one returns the value computed from the current
\* configuration, never a stored table's value.
C2_NextCallAfterInvalidation ==
    [][(/\ ret'.op = "is_key_used_cached"
        /\ \/ CacheKeyOf(prefs, mode) \notin DOMAIN keymap_cache
           \/ _compute_keyconfig_fingerprint(keyconfigs) # last_keyconfig_fingerprint)
       => ret'.value = DirectHighlight(keyconfigs', prefs', mode', ret'.key_label)]_vars

\* a call that found a table for its query key, found the fingerprint
\* changed, recomputed, and returned for RETURN the opposite of what the
\* table computed before the edit held (TRUE, under the initial preferences)
C2_Witness ==
    /\ ret.op = "is_key_used_cached"
    /\ ret.had /\ ~ret.valid /\ ret.fresh
    /\ changes = 0
    /\ ret.key_label = "RETURN"
    /\ ret.value = FALSE

\* the rows of the two resolvers for the panel's query
EditorRows(key_label) ==
    get_keymap_matches_in_editor(keyconfigs, key_label, prefs.editor,
        prefs.ctrl, prefs.shift, prefs.alt, prefs.cmd, prefs.hide_modal)

GlobalRows(key_label) ==
    get_global_matches(keyconfigs, key_label,
        prefs.ctrl, prefs.shift, prefs.alt, prefs.cmd, prefs.hide_modal)

HasPressRow(rows) == \E i \in 1..Len(rows) : rows[i].sig[4] = "PRESS"

\* C3 (as amended): for a grid key, the value is_key_used_cached returns on
\* a fresh cache is true exactly when get_keymap_matches_in_editor returns at
\* least one row whose trigger value is PRESS for the key in the selected
\* editor, or screen_always_on is enabled and get_global_matches returns at
\* least one row whose trigger value is PRESS for the key.
C3_FreshValueIsPressRows ==
    (ret.op = "is_key_used_cached" /\ ret.fresh /\ ret.key_label \in GridKeys)
        => ret.value = (\/ HasPressRow(EditorRows(ret.key_label))
                        \/ (prefs.screen_always_on /\ HasPressRow(GlobalRows(ret.key_label))))

\* C3 (as stated): for a grid key, the value is_key_used_cached returns on a
\* fresh cache is true exactly when get_keymap_matches_in_editor returns at
\* least one row, or screen_always_on is enabled and get_global_matches
\* returns at least one row.
C3_FreshValueIsAnyRows ==
    (ret.op = "is_key_used_cached" /\ ret.fresh /\ ret.key_label \in GridKeys)
        => ret.value = (\/ EditorRows(ret.key_label) # <<>>
                        \/ (prefs.screen_always_on /\ GlobalRows(ret.key_label) # <<>>))

\* a fresh value FALSE for a grid key whose only row is a RELEASE row of a
\* global scope, with screen_always_on enabled
C3_Witness ==
    /\ ret.op = "is_key_used_cached" /\ ret.fresh
    /\ ret.key_label = "Q" /\ ret.key_label \in GridKeys
    /\ prefs.screen_always_on
    /\ GlobalRows("Q") # <<>>
    /\ ~HasPressRow(GlobalRows("Q"))
    /\ ret.value = FALSE

\* the 5-tuple identity of the item at a position
Sig5(w, p) ==
    <<KmAt(w, p).name, KmiAt(w, p).idname, KmiAt(w, p).name, KmiAt(w, p).value,
      KmiAt(w, p).key_modifier>>

\* C4: a deactivate that returns FINISHED leaves the entry its arguments
\* name inactive, changes no other entry's flag and leaves the highlight
\* cache empty; and a call of is_key_used_cached that finds the cache empty
\* (as the first call after the deactivate does, whatever its query key)
\* computes its value from the current configuration, in which the entry is
\* inactive.
C4_DeactivateClearsCache ==
    [][/\ (ret'.op = "disable_keymap_item" /\ ret'.status = "FINISHED")
           => LET t == ret'.target IN
              /\ keyconfigs.objs[t.kc].name = ret'.args.kc_name
              /\ Sig5(keyconfigs, t) = <<ret'.args.km_name>> \o ret'.args.item
              /\ \A p \in Positions(keyconfigs') :
                    KmiAt(keyconfigs', p).active = (KmiAt(keyconfigs, p).active /\ p # t)
              /\ keymap_cache' = <<>>
       /\ (ret'.op = "is_key_used_cached" /\ keymap_cache = <<>>)
           => /\ ret'.fresh
              /\ ret'.value = DirectHighlight(keyconfigs', prefs', mode', ret'.key_label)
              /\ (ret.op = "disable_keymap_item" /\ ret.status = "FINISHED")
                    => ~KmiAt(keyconfigs', ret.target).active]_vars

\* a deactivate has returned FINISHED for an entry that was active, with
\* tables in the cache when it ran
C4_Witness ==
    /\ ret.op = "disable_keymap_item" /\ ret.status = "FINISHED"
    /\ ret.was_active /\ ret.had_tables
    /\ ~KmiAt(keyconfigs, ret.target).active
    /\ keymap_cache = <<>>

\* no entry of the named group of the named layer has the given 5-tuple
NoLiveTarget(w, a) ==
    ~\E p \in Positions(w) :
        /\ w.objs[p.kc].name = a.kc_name
        /\ Sig5(w, p) = <<a.km_name>> \o a.item

\* C5: a deactivate whose arguments match no live entry reports CANCELLED,
\* changes no entry's active flag, and leaves the cache contents and the
\* stored fingerprint as they were.
C5_FailedDeactivateChangesNothing ==
    [][(ret'.op = "disable_keymap_item" /\ NoLiveTarget(keyconfigs, ret'.args))
       => /\ ret'.status = "CANCELLED"
          /\ UNCHANGED <<keyconfigs, keymap_cache, last_keyconfig_fingerprint>>]_vars

\* a deactivate has been refused for a 5-tuple its group does not hold,
\* with tables in the cache
C5_Witness ==
    /\ ret.op = "disable_keymap_item" /\ ret.status = "CANCELLED"
    /\ ret.report = "Keymap item not found"
    /\ NoLiveTarget(keyconfigs, ret.args)
    /\ keymap_cache # <<>>

\* C18: every call of is_key_used_cached leaves the stored fingerprint equal
\* to the fingerprint of the current configuration; when the fingerprint it
\* computes differs from the stored one, every table is dropped (the only
\* table after the call is the one the call builds for its query key); when
\* it is equal, every table is kept as it was.
C18_FingerprintCheckedOnEveryCall ==
    [][ret'.op = "is_key_used_cached" =>
          LET fp == _compute_keyconfig_fingerprint(keyconfigs) IN
          /\ last_keyconfig_fingerprint' = fp
          /\ last_keyconfig_fingerprint' = _compute_keyconfig_fingerprint(keyconfigs')
          /\ IF fp # last_keyconfig_fingerprint
             THEN /\ DOMAIN keymap_cache' = {CacheKeyOf(prefs, mode)}
                  /\ ret'.fresh
             ELSE \A k \in DOMAIN keymap_cache :
                      k \in DOMAIN keymap_cache' /\ keymap_cache'[k] = keymap_cache[k]]_vars

\* a call found a table for its query key and the fingerprint changed by a
\* host edit: the table was dropped and built anew, and the stored
\* fingerprint is the current one
C18_Witness ==
    /\ ret.op = "is_key_used_cached"
    /\ ~ret.valid /\ ret.had /\ ret.fresh
    /\ edits = 1
    /\ ret.key_label = "Q"
    /\ DOMAIN keymap_cache = {CacheKeyOf(prefs, mode)}
    /\ last_keyconfig_fingerprint = _compute_keyconfig_fingerprint(keyconfigs)

(***************************************************************************)
(* Properties of the resolvers (under SpecResolve).                        *)
(***************************************************************************)
ResolveOps == {"get_keymap_matches_in_editor", "get_global_matches"}

NoModifierRequested == ~(prefs.ctrl \/ prefs.shift \/ prefs.alt \/ prefs.cmd)

\* the item is in a group the resolver looks at, and is bound to one of the
\* key's tokens
InScope(op, p) ==
    LET km == KmAt(keyconfigs, p)
        kmi == KmiAt(keyconfigs, p)
    IN  /\ ~(prefs.hide_modal /\ km.is_modal)
        /\ IF op = "get_global_matches"
           THEN SpaceOf(km) \in {"EMPTY", "SCREEN"}
           ELSE is_relevant_keymap(km, prefs.editor) /\ UvStrict(kmi, prefs.editor)
        /\ kmi.type \in Range(normalize_key_types(prefs.selected_key))

\* some inactive item of the user or the active layer has the same group
\* name, command id, key token, ctrl, shift, alt, os, any, trigger value and
\* key-modifier
Suppressed(p) ==
    \E q \in Positions(keyconfigs) :
        LET a == KmiAt(keyconfigs, p)
            b == KmiAt(keyconfigs, q)
        IN  /\ q.kc \in {keyconfigs.user, keyconfigs.active}
            /\ ~b.active
            /\ KmAt(keyconfigs, q).name = KmAt(keyconfigs, p).name
            /\ b.idname = a.idname /\ b.type = a.type
            /\ b.ctrl = a.ctrl /\ b.shift = a.shift /\ b.alt = a.alt /\ b.oskey = a.oskey
            /\ b.any = a.any /\ b.value = a.value /\ b.key_modifier = a.key_modifier

\* C6: an active any-modifier entry that is otherwise eligible (group in
\* scope, key token, not suppressed) is matched if and only if the query
\* requests no modifier, whatever its own ctrl/shift/alt/os flags; with a
\* modifier requested every returned row comes from an entry without the
\* any flag.
C6_AnyMatchesOnlyBareQuery ==
    ret.op \in ResolveOps =>
        /\ \A p \in Positions(keyconfigs) :
              LET kmi == KmiAt(keyconfigs, p) IN
              (kmi.active /\ kmi.any /\ InScope(ret.op, p) /\ ~Suppressed(p))
                  => (Contains(ret.matched, p) <=> NoModifierRequested)
        /\ ~NoModifierRequested =>
              \A i \in 1..Len(ret.rows) :
                  \E q \in Range(ret.matched) :
                      ~KmiAt(keyconfigs, q).any /\ Sig5(keyconfigs, q) = ret.rows[i].sig

\* a query with ctrl requested left out an eligible any-modifier entry whose
\* own ctrl flag is set, and returned no row
C6_Witness ==
    /\ ret.op = "get_keymap_matches_in_editor"
    /\ prefs.ctrl /\ ~prefs.shift /\ ~prefs.alt /\ ~prefs.cmd
    /\ \E p \in Positions(keyconfigs) :
          LET kmi == KmiAt(keyconfigs, p) IN
          /\ kmi.active /\ kmi.any /\ kmi.ctrl
          /\ InScope(ret.op, p) /\ ~Suppressed(p)
          /\ ~Contains(ret.matched, p)
    /\ ret.rows = <<>>

\* C7: an active entry without the any flag that is otherwise eligible is
\* matched exactly when its ctrl, shift, alt and os flags each equal the
\* requested flag; and every entry without the any flag matches exactly one
\* of the 16 modifier combinations.
C7_ExactModifierMatch ==
    /\ ret.op \in ResolveOps =>
          \A p \in Positions(keyconfigs) :
              LET kmi == KmiAt(keyconfigs, p) IN
              (kmi.active /\ ~kmi.any /\ InScope(ret.op, p) /\ ~Suppressed(p))
                  => (Contains(ret.matched, p)
                        <=> <<kmi.ctrl, kmi.shift, kmi.alt, kmi.oskey>>
                              = <<prefs.ctrl, prefs.shift, prefs.alt, prefs.cmd>>)
    /\ \A p \in Positions(keyconfigs) :
          ~KmiAt(keyconfigs, p).any =>
              Cardinality({f \in Flags4 : _modifiers_match(KmiAt(keyconfigs, p),
                                              f.ctrl, f.shift, f.alt, f.cmd)}) = 1

\* a query for ctrl alone matched an entry bound with ctrl alone and left
\* out an eligible entry bound without modifiers
C7_Witness ==
    /\ ret.op \in ResolveOps
    /\ prefs.ctrl /\ ~prefs.shift /\ ~prefs.alt /\ ~prefs.cmd
    /\ \E p \in Range(ret.matched) :
          LET kmi == KmiAt(keyconfigs, p) IN
          ~kmi.any /\ kmi.ctrl /\ ~kmi.shift /\ ~kmi.alt /\ ~kmi.oskey
    /\ \E p \in Positions(keyconfigs) :
          LET kmi == KmiAt(keyconfigs, p) IN
          /\ kmi.active /\ ~kmi.any /\ InScope(ret.op, p) /\ ~Suppressed(p)
          /\ ~kmi.ctrl /\ ~kmi.shift /\ ~kmi.alt /\ ~kmi.oskey
          /\ ~Contains(ret.matched, p)

\* C8: an active entry that otherwise matches the query (group in scope,
\* key token, modifiers) is left out if and only if some inactive entry of
\* the user or the active layer has the identical full binding signature,
\* all ten components.
C8_SuppressionByFullSignature ==
    ret.op \in ResolveOps =>
        \A p \in Positions(keyconfigs) :
            LET kmi == KmiAt(keyconfigs, p) IN
            (/\ kmi.active
             /\ InScope(ret.op, p)
             /\ _modifiers_match(kmi, prefs.ctrl, prefs.shift, prefs.alt, prefs.cmd))
                => (~Contains(ret.matched, p) <=> Suppressed(p))

\* one query left out an entry with an inactive twin in the user layer and
\* kept an entry although an inactive entry of the user layer shares its
\* group and command id and differs in the ctrl flag only
C8_Witness ==
    /\ ret.op = "get_keymap_matches_in_editor"
    /\ \E p \in Positions(keyconfigs) :
          /\ KmiAt(keyconfigs, p).active
          /\ InScope(ret.op, p)
          /\ _modifiers_match(KmiAt(keyconfigs, p), prefs.ctrl, prefs.shift, prefs.alt,
                              prefs.cmd)
          /\ Suppressed(p)
          /\ ~Contains(ret.matched, p)
          /\ \A i \in 1..Len(ret.rows) : ret.rows[i].sig # Sig5(keyconfigs, p)
    /\ \E p \in Range(ret.matched) : \E q \in Positions(keyconfigs) :
          /\ q.kc = keyconfigs.user
          /\ ~KmiAt(keyconfigs, q).active
          /\ KmAt(keyconfigs, q).name = KmAt(keyconfigs, p).name
          /\ KmiAt(keyconfigs, q).idname = KmiAt(keyconfigs, p).idname
          /\ KmiAt(keyconfigs, q).ctrl # KmiAt(keyconfigs, p).ctrl
          /\ [KmiAt(keyconfigs, q) EXCEPT !.ctrl = ~@, !.active = TRUE] = KmiAt(keyconfigs, p)

\* the index at which the 5-tuple first occurs among the matched items
FirstMatched(matched, sig) ==
    CHOOSE k \in 1..Len(matched) :
        /\ Sig5(keyconfigs, matched[k]) = sig
        /\ \A j \in 1..(k - 1) : Sig5(keyconfigs, matched[j]) # sig

\* C9: the rows hold each 5-tuple of the matched entries once and no other;
\* a row's provenance is the set of names of the layers that contributed a
\* matched entry with its 5-tuple; and the rows stand in the order in which
\* their 5-tuples first occur in the walk.
C9_OneRowPerIdentity ==
    ret.op \in ResolveOps =>
        LET matched == ret.matched
            rows == ret.rows
        IN  /\ \A i, j \in 1..Len(rows) : i # j => rows[i].sig # rows[j].sig
            /\ {rows[i].sig : i \in 1..Len(rows)}
                  = {Sig5(keyconfigs, matched[k]) : k \in 1..Len(matched)}
            /\ \A i \in 1..Len(rows) :
                  /\ Range(rows[i].kc_names)
                        = {keyconfigs.objs[matched[k].kc].name :
                              k \in {n \in 1..Len(matched) :
                                        Sig5(keyconfigs, matched[n]) = rows[i].sig}}
                  /\ Len(rows[i].kc_names) = Cardinality(Range(rows[i].kc_names))
            /\ \A i, j \in 1..Len(rows) :
                  i < j => FirstMatched(matched, rows[i].sig) < FirstMatched(matched, rows[j].sig)

\* two rows, the first merged from two layers, the second layer's entry met
\* after the other row's entry
C9_Witness ==
    /\ ret.op \in ResolveOps
    /\ Len(ret.rows) = 2
    /\ Len(ret.rows[1].kc_names) = 2
    /\ Len(ret.matched) = 3
    /\ Sig5(keyconfigs, ret.matched[1]) = Sig5(keyconfigs, ret.matched[3])
    /\ Sig5(keyconfigs, ret.matched[1]) # Sig5(keyconfigs, ret.matched[2])

(***************************************************************************)
(* Property of the layer order (under SpecLayers).                         *)
(***************************************************************************)
\* the 5-tuple identities of a row list, each with its provenance
Identities(rows) == {<<rows[i].sig, rows[i].kc_names>> : i \in 1..Len(rows)}

\* C11: whatever the order in which the layers are met, the editor resolver
\* returns for the same query the same set of 5-tuple identities, each with
\* the same provenance, and one row per identity; only the order of the
\* rows may differ.
C11_LayerOrderKeepsIdentities ==
    ret.op = "get_keymap_matches_in_editor_on" =>
        /\ Identities(ret.rows) = Identities(ret.base)
        /\ Len(ret.rows) = Len(ret.base)

\* the layers met in another order gave the same two identities in the other
\* order, one of them contributed by two layers
C11_Witness ==
    /\ ret.op = "get_keymap_matches_in_editor_on"
    /\ ret.kcs # _iter_all_keyconfigs(keyconfigs)
    /\ Len(ret.rows) = 2 /\ Len(ret.base) = 2
    /\ ret.rows[1].sig = ret.base[2].sig
    /\ ret.rows[2].sig = ret.base[1].sig
    /\ \E i \in 1..2 : Len(ret.rows[i].kc_names) = 2

(***************************************************************************)
(* Properties of get_keymap_conflicts (under SpecConflicts).               *)
(***************************************************************************)
\* the active entries bound to the queried token and modifiers in a group
\* the named resolver looks at, and not suppressed
Bound(op) ==
    {p \in Positions(keyconfigs) :
        /\ KmiAt(keyconfigs, p).active
        /\ InScope(op, p)
        /\ _modifiers_match(KmiAt(keyconfigs, p), prefs.ctrl, prefs.shift, prefs.alt, prefs.cmd)
        /\ ~Suppressed(p)}

SigsOf(rows) == {rows[i].sig : i \in 1..Len(rows)}

\* C12: when exactly two entries are bound to the queried token and
\* modifiers in groups of the requested context, with distinct command ids
\* and the same trigger value, the editor rows are exactly two, one per
\* entry, and the intra-context conflict list is exactly those two rows.
C12_TwoCommandsConflict ==
    ret.op = "get_keymap_conflicts" =>
        LET B == Bound("get_keymap_matches_in_editor") IN
        (/\ Cardinality(B) = 2
         /\ \A p, q \in B :
               p # q => /\ KmiAt(keyconfigs, p).idname # KmiAt(keyconfigs, q).idname
                        /\ KmiAt(keyconfigs, p).value = KmiAt(keyconfigs, q).value)
            => /\ Len(ret.lists.editor_rows) = 2
               /\ SigsOf(ret.lists.editor_rows) = {Sig5(keyconfigs, p) : p \in B}
               /\ ret.lists.intra_editor_conflicts = ret.lists.editor_rows

\* two commands on the same token in two layers, under the same group name:
\* two rows, both reported
C12_Witness ==
    /\ ret.op = "get_keymap_conflicts"
    /\ LET B == Bound("get_keymap_matches_in_editor") IN
       /\ Cardinality(B) = 2
       /\ \E p, q \in B :
             /\ p.kc # q.kc
             /\ KmAt(keyconfigs, p).name = KmAt(keyconfigs, q).name
             /\ KmiAt(keyconfigs, p).idname # KmiAt(keyconfigs, q).idname
             /\ KmiAt(keyconfigs, p).value = KmiAt(keyconfigs, q).value
    /\ Len(ret.lists.intra_editor_conflicts) = 2

\* C13 (as the code has it): whenever the intra list is not empty it is the
\* whole list of editor rows, it has at least two rows, and its rows have
\* pairwise distinct 5-tuple identities (group name, command id, display
\* name, trigger value, key-modifier).
C13_IntraIsTwoOrMoreIdentities ==
    (ret.op = "get_keymap_conflicts" /\ ret.lists.intra_editor_conflicts # <<>>) =>
        LET intra == ret.lists.intra_editor_conflicts IN
        /\ intra = ret.lists.editor_rows
        /\ Len(intra) >= 2
        /\ \A i, j \in 1..Len(intra) : i # j => intra[i].sig # intra[j].sig

\* C13 (as stated): whenever the intra list is not empty it holds rows for
\* at least two different command ids that share the same trigger value.
C13_IntraIsTwoCommandsOneTrigger ==
    (ret.op = "get_keymap_conflicts" /\ ret.lists.intra_editor_conflicts # <<>>) =>
        LET intra == ret.lists.intra_editor_conflicts IN
        \E i, j \in 1..Len(intra) :
            /\ intra[i].sig[2] # intra[j].sig[2]
            /\ intra[i].sig[4] = intra[j].sig[4]

\* one command bound in two groups of the context: two rows reported, one
\* command id
C13_Witness ==
    /\ ret.op = "get_keymap_conflicts"
    /\ Len(ret.lists.intra_editor_conflicts) = 2
    /\ ret.lists.intra_editor_conflicts[1].sig[2] = ret.lists.intra_editor_conflicts[2].sig[2]
    /\ ret.lists.intra_editor_conflicts[1].sig[1] # ret.lists.intra_editor_conflicts[2].sig[1]

\* the rows of sub, in the order they have in rows
IsSubSeq(sub, rows) ==
    \E f \in [1..Len(sub) -> 1..Len(rows)] :
        /\ \A i \in 1..Len(sub) : rows[f[i]] = sub[i]
        /\ \A i, j \in 1..Len(sub) : i < j => f[i] < f[j]

\* (command id, trigger value, key-modifier) of the rows
Reduced(rows) == {<<rows[i].sig[2], rows[i].sig[4], rows[i].sig[5]>> : i \in 1..Len(rows)}

\* C14: each overlap list holds, in order, exactly the rows of its side
\* whose (command id, trigger value, key-modifier) also occurs on the other
\* side; and when one entry is bound in the requested context, one in the
\* global scopes, with the same command id, trigger value and key-modifier,
\* each overlap list has exactly one row and the intra list is empty.
C14_OverlapIsIntersection ==
    ret.op = "get_keymap_conflicts" =>
        LET l == ret.lists
            common == Reduced(l.editor_rows) \cap Reduced(l.global_rows)
            Be == Bound("get_keymap_matches_in_editor")
            Bg == Bound("get_global_matches")
        IN  /\ IsSubSeq(l.editor_overlap_rows, l.editor_rows)
            /\ IsSubSeq(l.global_overlap_rows, l.global_rows)
            /\ \A i \in 1..Len(l.editor_rows) :
                  (Reduced(<<l.editor_rows[i]>>) \subseteq common)
                      <=> Contains(l.editor_overlap_rows, l.editor_rows[i])
            /\ \A i \in 1..Len(l.global_rows) :
                  (Reduced(<<l.global_rows[i]>>) \subseteq common)
                      <=> Contains(l.global_overlap_rows, l.global_rows[i])
            /\ (/\ Cardinality(Be) = 1 /\ Cardinality(Bg) = 1
                 /\ \A p \in Be : \A q \in Bg :
                       /\ p # q
                       /\ KmiAt(keyconfigs, p).idname = KmiAt(keyconfigs, q).idname
                       /\ KmiAt(keyconfigs, p).value = KmiAt(keyconfigs, q).value
                       /\ KmiAt(keyconfigs, p).key_modifier = KmiAt(keyconfigs, q).key_modifier)
                  => /\ Len(l.editor_overlap_rows) = 1
                     /\ Len(l.global_overlap_rows) = 1
                     /\ l.intra_editor_conflicts = <<>>

\* one command bound once in a group of the 3D View and once in a global
\* group, nothing else on the token: one row in each overlap list
C14_Witness ==
    /\ ret.op = "get_keymap_conflicts"
    /\ prefs.editor = "VIEW_3D"
    /\ Cardinality(Bound("get_keymap_matches_in_editor")) = 1
    /\ Cardinality(Bound("get_global_matches")) = 1
    /\ Bound("get_keymap_matches_in_editor") # Bound("get_global_matches")
    /\ Len(ret.lists.editor_overlap_rows) = 1
    /\ Len(ret.lists.global_overlap_rows) = 1
    /\ ret.lists.editor_overlap_rows[1].sig[1] # ret.lists.global_overlap_rows[1].sig[1]

(***************************************************************************)
(* Properties of the scope tests (under SpecScope).                        *)
(***************************************************************************)
\* C15 (as the code has it): for a keymap whose space type equals the
\* requested editor, is_relevant_keymap returns true exactly when the
\* keymap's name does not mention uv: the rules on the name come first and
\* win before equality of the space type.
C15_TagEqualityAfterNameRules ==
    (ret.op = "is_relevant_keymap" /\ SpaceOf(ret.km) = ret.editor) =>
        (ret.result <=> ~NameMentionsUv(ret.km.name))

\* C15 (as stated): is_relevant_keymap returns true for every keymap whose
\* space type equals the requested editor, whatever the keymap's name.
C15_TagEqualityAlwaysRelevant ==
    (ret.op = "is_relevant_keymap" /\ SpaceOf(ret.km) = ret.editor) => ret.result

\* a keymap with the space type of the requested editor and a name that
\* mentions uv was classified as not relevant
C15_Witness ==
    /\ ret.op = "is_relevant_keymap"
    /\ SpaceOf(ret.km) = ret.editor
    /\ NameMentionsUv(ret.km.name)
    /\ ~ret.result

PlaceIn(s, x) == CHOOSE i \in 1..Len(s) : s[i] = x /\ \A j \in 1..(i - 1) : s[j] # x

\* C17: a walk yields every present keyconfig once: those the references
\* default, user, addon, active resolve to, in that order (a keyconfig
\* reached by several references at the place of the first), then the other
\* keyconfigs of the host in its order; absent references are skipped.  The
\* result depends on the configuration as it is at the call alone.
C17_WalkOrder ==
    ret.op = "_iter_all_keyconfigs" =>
        LET kcs == ret.kcs
            named == <<keyconfigs.default, keyconfigs.user, keyconfigs.addon, keyconfigs.active>>
            present == Range(named) \ {0}
            others == (1..Len(keyconfigs.objs)) \ present
        IN  /\ \A i, j \in 1..Len(kcs) : i # j => kcs[i] # kcs[j]
            /\ Range(kcs) = present \cup others
            /\ \A x, y \in present :
                  PlaceIn(named, x) < PlaceIn(named, y) => PlaceIn(kcs, x) < PlaceIn(kcs, y)
            /\ \A x \in present : \A e \in others : PlaceIn(kcs, x) < PlaceIn(kcs, e)
            /\ \A e, f \in others : e < f => PlaceIn(kcs, e) < PlaceIn(kcs, f)

\* a second call in a row, with default and addon resolving to one
\* keyconfig and user absent: that keyconfig once, then the active one,
\* then the one no reference names
C17_Witness ==
    /\ ret.op = "_iter_all_keyconfigs"
    /\ ret.calls = 2
    /\ keyconfigs.default = keyconfigs.addon
    /\ keyconfigs.default # 0
    /\ keyconfigs.user = 0
    /\ keyconfigs.active \notin {0, keyconfigs.default}
    /\ Len(ret.kcs) = 3
    /\ ret.kcs[1] = keyconfigs.default
    /\ ret.kcs[2] = keyconfigs.active

(***************************************************************************)
(* Property of the resolvers over incomplete items (under SpecPartial).    *)
(***************************************************************************)
\* C19: a query over a configuration in which an item lacks an attribute
\* never raises; it returns a result.
C19_QueryNeverRaises ==
    ret.op \in {"get_keymap_matches_in_editor", "get_global_matches", "get_keymap_conflicts"}
        => ret.status = "returned"

(***************************************************************************)
(* Property of the grave key (under SpecGrave).                            *)
(***************************************************************************)
\* C20: normalize_key_types gives the grave label the two tokens
\* ACCENT_GRAVE and GRAVE, and a query for that label returns every active
\* entry bound to either token whose modifiers match, in a group of the
\* query's scope and not suppressed.
C20_GraveBothTokens ==
    /\ normalize_key_types(Backquote) = <<"ACCENT_GRAVE", "GRAVE">>
    /\ (ret.op \in ResolveOps /\ prefs.selected_key = Backquote) =>
          \A p \in Positions(keyconfigs) :
              LET km == KmAt(keyconfigs, p)
                  kmi == KmiAt(keyconfigs, p)
              IN  (/\ kmi.active
                   /\ kmi.type \in {"ACCENT_GRAVE", "GRAVE"}
                   /\ _modifiers_match(kmi, prefs.ctrl, prefs.shift, prefs.alt, prefs.cmd)
                   /\ ~(prefs.hide_modal /\ km.is_modal)
                   /\ IF ret.op = "get_global_matches"
                      THEN SpaceOf(km) \in {"EMPTY", "SCREEN"}
                      ELSE is_relevant_keymap(km, prefs.editor) /\ UvStrict(kmi, prefs.editor)
                   /\ ~Suppressed(p))
                  => /\ Contains(ret.matched, p)
                     /\ Sig5(keyconfigs, p) \in SigsOf(ret.rows)

\* a query for the grave label returned two rows, one from an entry bound
\* to ACCENT_GRAVE and one from an entry bound to GRAVE
C20_Witness ==
    /\ ret.op = "get_keymap_matches_in_editor"
    /\ prefs.selected_key = Backquote
    /\ Len(ret.rows) = 2
    /\ \E p, q \in Range(ret.matched) :
          /\ KmiAt(keyconfigs, p).type = "ACCENT_GRAVE"
          /\ KmiAt(keyconfigs, q).type = "GRAVE"
          /\ SigsOf(ret.rows) = {Sig5(keyconfigs, p), Sig5(keyconfigs, q)}

(***************************************************************************)
(* Properties of normalize_key_types (under SpecDigits, SpecUnknown).      *)
(***************************************************************************)
\* the word num_map spells a main-row digit with
DigitWord(d) ==
    CASE d = "0" -> "ZERO" [] d = "1" -> "ONE" [] d = "2" -> "TWO" [] d = "3" -> "THREE"
      [] d = "4" -> "FOUR" [] d = "5" -> "FIVE" [] d = "6" -> "SIX" [] d = "7" -> "SEVEN"
      [] d = "8" -> "EIGHT" [] d = "9" -> "NINE"

\* C21: a query for the main-row digit d returns only entries whose token
\* is the word of d, never one with the token NUMPAD_d, and a query for
\* NUMPAD_d returns only entries whose token is NUMPAD_d; every returned
\* row is the row of such an entry.
C21_DigitsNeverCross ==
    ret.op \in ResolveOps =>
        /\ \A d \in Digits :
              /\ prefs.selected_key = d =>
                    \A p \in Range(ret.matched) : KmiAt(keyconfigs, p).type = DigitWord(d)
              /\ prefs.selected_key = NumpadKeyId(d) =>
                    \A p \in Range(ret.matched) : KmiAt(keyconfigs, p).type = NumpadKeyId(d)
        /\ SigsOf(ret.rows) = {Sig5(keyconfigs, p) : p \in Range(ret.matched)}

\* a query for 3 in a 3D View that binds both THREE and NUMPAD_3 returned
\* the one row of the THREE entry
C21_Witness ==
    /\ ret.op = "get_keymap_matches_in_editor"
    /\ prefs.selected_key = "3"
    /\ \E p, q \in Positions(keyconfigs) :
          /\ KmAt(keyconfigs, p).name = "3D View" /\ KmAt(keyconfigs, q).name = "3D View"
          /\ KmiAt(keyconfigs, p).type = "THREE" /\ KmiAt(keyconfigs, p).active
          /\ KmiAt(keyconfigs, q).type = "NUMPAD_3" /\ KmiAt(keyconfigs, q).active
          /\ Contains(ret.matched, p)
          /\ ~Contains(ret.matched, q)
    /\ Len(ret.rows) = 1

\* C22: for a label no table lists, normalize_key_types returns the list
\* holding the label alone, and a resolver asked for that label returns no
\* row when no entry's token equals the label (every entry it lets through
\* has the label as its token).
C22_UnknownLabelPassesThrough ==
    /\ \A l \in UnknownLabels : normalize_key_types(l) = <<l>>
    /\ (ret.op \in ResolveOps /\ prefs.selected_key \in UnknownLabels) =>
          /\ \A p \in Range(ret.matched) : KmiAt(keyconfigs, p).type = prefs.selected_key
          /\ (\A p \in Positions(keyconfigs) : KmiAt(keyconfigs, p).type # prefs.selected_key)
                => ret.rows = <<>>

\* a query for a label no table lists and no entry is bound to returned the
\* empty list, over a configuration with active entries in the query's scope
C22_Witness ==
    /\ ret.op = "get_keymap_matches_in_editor"
    /\ prefs.selected_key = "FOO"
    /\ ret.rows = <<>>
    /\ \E p \in Positions(keyconfigs) :
          /\ KmiAt(keyconfigs, p).active
          /\ is_relevant_keymap(KmAt(keyconfigs, p), prefs.editor)
          /\ KmiAt(keyconfigs, p).type = "MEDIA_PLAY"

(***************************************************************************)
(* Property of the fingerprint (under Spec).                               *)
(***************************************************************************)
\* cnt of _compute_keyconfig_fingerprint, for the keyconfig object kc
LayerCount(w, kc) == SumLen(w.objs[kc].keymaps)

\* the count _compute_keyconfig_fingerprint pairs with a named reference
NamedCount(w, kc_name) ==
    IF NamedKeyconfig(w, kc_name) = 0 THEN 0 ELSE LayerCount(w, NamedKeyconfig(w, kc_name))

\* C23: a step that changes the number of entries of a layer
\* _iter_all_keyconfigs visits changes the fingerprint, and a step that
\* leaves the counts of the default, user, addon and active layers equal
\* leaves the fingerprint equal.
C23_CountChangeChangesFingerprint ==
    [][/\ (\E kc \in Range(_iter_all_keyconfigs(keyconfigs)) :
              LayerCount(keyconfigs', kc) # LayerCount(keyconfigs, kc))
          => _compute_keyconfig_fingerprint(keyconfigs')
                 # _compute_keyconfig_fingerprint(keyconfigs)
       /\ (\A n \in {"default", "user", "addon", "active"} :
              NamedCount(keyconfigs', n) = NamedCount(keyconfigs, n))
          => _compute_keyconfig_fingerprint(keyconfigs')
                 = _compute_keyconfig_fingerprint(keyconfigs)]_vars

(***************************************************************************)
(* Property of the editor scope (under SpecResolve).                       *)
(***************************************************************************)
\* C24: for every editor of the editor list, no row of
\* get_keymap_matches_in_editor comes from a group whose space type is
\* SCREEN, EMPTY or absent.
C24_NoGlobalGroupInEditorRows ==
    ret.op = "get_keymap_matches_in_editor" =>
        \A p \in Range(ret.matched) :
            KmAt(keyconfigs, p).space_type \notin {"SCREEN", "EMPTY", ""}

(***************************************************************************)
(* Properties of the panel (under SpecPanel).                              *)
(***************************************************************************)
\* C25: the selected key is highlighted if and only if the list "Assigned
\* in current context" or the list "In global scopes", as draw builds them
\* under the same preferences and mode, has a row.
C25_HighlightIffPanelLists ==
    (ret.op = "draw" /\ ret.selected_key # "") =>
        (ret.is_used <=> (ret.merged_rows # <<>> \/ ret.gl_rows_all # <<>>))

\* C27: WM_OT_SelectKey sets selected_key to the clicked key when
\* is_key_used_cached gives true for it under the current preferences and
\* mode, and leaves selected_key as it was when it gives false; it changes
\* no other preference, no keymap item and not the mode.
C27_SelectOnlyHighlighted ==
    [][ret'.op = "select_keymap_key" =>
          LET table == keymap_cache'[CacheKeyOf(prefs, mode)] IN
          /\ ret'.assigned = (ret'.key \in DOMAIN table /\ table[ret'.key])
          /\ prefs'.selected_key = IF ret'.assigned THEN ret'.key ELSE prefs.selected_key
          /\ \A f \in (DOMAIN prefs) \ {"selected_key"} : prefs'[f] = prefs[f]
          /\ keyconfigs' = keyconfigs
          /\ mode' = mode]_vars

\* a click on Q, which is not highlighted, left the key A selected
C27_Witness ==
    /\ ret.op = "select_keymap_key"
    /\ ret.key = "Q"
    /\ ~ret.assigned
    /\ prefs.selected_key = "A"

\* the labels of the three grids, the numpad ones qualified
FixedGrid ==
    {"ESC", "F1", "F2", "F3", "F4", "F5", "F6", "F7", "F8", "F9", "F10", "F11", "F12",
     Backquote, "1", "2", "3", "4", "5", "6", "7", "8", "9", "0", "-", "=", "DELETE",
     "TAB", "Q", "W", "E", "R", "T", "Y", "U", "I", "O", "P", "[", "]", "\\",
     "A", "S", "D", "F", "G", "H", "J", "K", "L", ";", "'", "RETURN",
     "Z", "X", "C", "V", "B", "N", "M", ",", ".", "/",
     "SPACE", "ENTER", "BACK_SPACE",
     "F13", "F14", "F15", "INSERT", "HOME", "PAGE_UP", "END", "PAGE_DOWN",
     "UP", "DOWN", "LEFT", "RIGHT",
     "F16", "F17", "F18", "F19",
     "NUMPAD_EQUALS", "NUMPAD_SLASH", "NUMPAD_ASTERIX", "NUMPAD_MINUS", "NUMPAD_PLUS",
     "NUMPAD_PERIOD", "NUMPAD_ENTER",
     "NUMPAD_0", "NUMPAD_1", "NUMPAD_2", "NUMPAD_3", "NUMPAD_4", "NUMPAD_5", "NUMPAD_6",
     "NUMPAD_7", "NUMPAD_8", "NUMPAD_9"}

\* C30: every table of keymap_cache holds a boolean for every label of the
\* key grid and for no other label, and is_key_used_cached gives false for
\* a label outside the grid, whatever is bound to it.
C30_TablesCoverGrid ==
    /\ \A k \in DOMAIN keymap_cache :
          /\ DOMAIN keymap_cache[k] = FixedGrid
          /\ \A l \in FixedGrid : keymap_cache[k][l] \in BOOLEAN
    /\ (ret.op = "select_keymap_key" /\ ret.key \notin FixedGrid) => ~ret.assigned

\* is_key_used_cached gave false for MEDIA_PLAY, a label outside the grid,
\* while an active item of the 3D View is bound to it and the table of the
\* current preferences is stored
C30_Witness ==
    /\ ret.op = "select_keymap_key"
    /\ ret.key = "MEDIA_PLAY"
    /\ ~ret.assigned
    /\ CacheKeyOf(prefs, mode) \in DOMAIN keymap_cache
    /\ prefs.editor = "VIEW_3D"
    /\ \E p \in Positions(keyconfigs) :
          /\ KmiAt(keyconfigs, p).type = "MEDIA_PLAY"
          /\ KmiAt(keyconfigs, p).active
          /\ KmAt(keyconfigs, p).space_type = "VIEW_3D"
    /\ get_keymap_matches_in_editor(keyconfigs, "MEDIA_PLAY", prefs.editor, prefs.ctrl,
           prefs.shift, prefs.alt, prefs.cmd, prefs.hide_modal) # <<>>

(***************************************************************************)
(* Property of the deactivate button (under SpecDeactivate).               *)
(***************************************************************************)
\* C26: when WM_OT_DisableKeymapItem finishes for a row of the lists drawn
\* for a query, the item whose active flag it clears matched that query:
\* its key token is one of normalize_key_types(key label) and its modifiers
\* match the requested ones.
C26_DeactivatedEntryMatchedQuery ==
    [][(/\ ret.op = "get_keymap_conflicts"
        /\ ret'.op = "disable_keymap_item"
        /\ ret'.status = "FINISHED")
       => LET kmi == KmiAt(keyconfigs, ret'.target) IN
          /\ kmi.type \in Range(normalize_key_types(prefs.selected_key))
          /\ _modifiers_match(kmi, prefs.ctrl, prefs.shift, prefs.alt, prefs.cmd)]_vars

(***************************************************************************)
(* Property of the five lists (under SpecDeactivate).                      *)
(***************************************************************************)
\* C28: in every result of get_keymap_conflicts the editor overlap rows are
\* rows of editor_rows in their order, the global overlap rows are rows of
\* global_rows in their order, one overlap list is empty exactly when the
\* other is, and the intra list is empty or the whole of editor_rows, never
\* a single row.
C28_ShapeOfTheLists ==
    ret.op = "get_keymap_conflicts" =>
        LET l == ret.lists IN
        /\ IsSubSeq(l.editor_overlap_rows, l.editor_rows)
        /\ IsSubSeq(l.global_overlap_rows, l.global_rows)
        /\ (l.editor_overlap_rows = <<>>) <=> (l.global_overlap_rows = <<>>)
        /\ l.intra_editor_conflicts \in {<<>>, l.editor_rows}
        /\ Len(l.intra_editor_conflicts) # 1

\* a result with two editor rows of which one overlaps the one global row:
\* the intra list is the two editor rows, each overlap list has one row
C28_Witness ==
    /\ ret.op = "get_keymap_conflicts"
    /\ Len(ret.lists.editor_rows) = 2
    /\ ret.lists.intra_editor_conflicts = ret.lists.editor_rows
    /\ Len(ret.lists.editor_overlap_rows) = 1
    /\ Len(ret.lists.global_overlap_rows) = 1

(***************************************************************************)
(* Property of _only_press and _compact_rows (under SpecPress).            *)
(***************************************************************************)
\* C29: for every list of rows, filtering to PRESS and then compacting
\* gives the same list as compacting and then filtering to PRESS.
C29_PressAndCompactCommute ==
    ret.op = "_only_press/_compact_rows" => ret.press_first = ret.compact_first

\* a list of three rows, a RELEASE row of a command first and then two
\* PRESS rows of the same command from two keyconfigs: both orders give the
\* one PRESS row with the two names
C29_Witness ==
    /\ ret.op = "_only_press/_compact_rows"
    /\ Len(ret.input) = 3
    /\ ret.input[1].sig[4] = "RELEASE"
    /\ ret.input[2].sig[4] = "PRESS"
    /\ ret.input[1].sig[2] = ret.input[2].sig[2]
    /\ Len(ret.press_first) = 1
    /\ Len(ret.press_first[1].kc_names) = 2
    /\ ret.compact_first = ret.press_first

(***************************************************************************)
(* Property of _compact_rows (under SpecRows).                             *)
(***************************************************************************)
\* C10: _compact_rows applied to its own output returns that output
\* unchanged: the same rows, in the same order, with the same provenance.
C10_CompactRowsIdempotent ==
    (ret.op = "_compact_rows" /\ ret.applied >= 2) => ret.rows = ret.prev

\* a second application to an output in which two rows were merged and two
\* rows remain
C10_Witness ==
    /\ ret.op = "_compact_rows" /\ ret.applied = 2
    /\ Len(ret.input) = 3
    /\ Len(ret.rows) = 2
    /\ \E i \in 1..2 : Len(ret.rows[i].kc_names) = 2

====
